---- MODULE Spec2Model ----
(***************************************************************************)
(* A model of automation_concierge: the rate-limit-aware GitHub client     *)
(* (src/src/concierge/github/client.py), the checkpoint value object       *)
(* (src/src/concierge/state/checkpoint.py), the SQLite state store         *)
(* (src/src/concierge/state/store.py) and the poll cycle that wires them   *)
(* (src/src/concierge/cli.py, src/src/concierge/rules/engine.py).          *)
(*                                                                         *)
(* Three state machines share the module, each with its own variables:     *)
(*   SpecClient      one client, a bounded number of logical calls         *)
(*   SpecCheckpoint  chains of Checkpoint.update calls                     *)
(*   Spec            the store, the poll cycle, crash and restart          *)
(* A specification leaves the variables of the other machines unchanged.   *)
(***************************************************************************)
EXTENDS Integers, Sequences, FiniteSets, TLC

(***************************************************************************)
(* Optional values: None is the empty sequence, Some(x) a one-element one. *)
(***************************************************************************)
None == <<>>

Some(x) == <<x>>

IsSome(o) == o /= <<>>

Get(o) == o[1]

Max(a, b) == IF a >= b THEN a ELSE b

Min(a, b) == IF a <= b THEN a ELSE b

RECURSIVE Pow2(_)
Pow2(n) == IF n = 0 THEN 1 ELSE 2 * Pow2(n - 1)

(***************************************************************************)
(* Bounds of the model.                                                    *)
(***************************************************************************)
\* logical calls (get / one page fetch) made on the client
MaxCalls == 2

\* length of a chain of Checkpoint.update calls
MaxUpdates == 4

\* largest timestamp (timestamps are 1..MaxTime)
MaxTime == 3

\* poll cycles started
MaxCycles == 2

\* process crashes
MaxCrashes == 1

\* last day of the clock (days are 0..MaxDay)
MaxDay == 2

\* poll cycles the daemon starts
MaxDaemonCycles == 2

\* waits the client starts inside one cycle of the daemon
MaxWaits == 2

\* pages of the upstream chain
MaxBookPages == 3

\* items on a page
MaxPageSize == 2

\* largest max_pages a caller passes
MaxCap == 2

\* page requests that fail and are retried, over one get_paginated
MaxPageFailures == 1

\* largest limit passed to query_audit_log
MaxLimit == 2

\* largest CURRENT_SCHEMA_VERSION
MaxSchemaVersion == 3

\* migrate_database calls
MaxMigrateCalls == 2

\* poll cycles in which entities are looked up
MaxCacheCycles == 2

\* get_issue / get_pull_request calls
MaxLookups == 3

\* execute calls on the notification channels in one behaviour
MaxSendCalls == 2

\* the monotonic clock is followed up to this reading, seconds
MaxMonotonic == 8000

\* SlackAction.MAX_RETRIES
SLACK_MAX_RETRIES == 3

\* GitHubCommentAction.MAX_RETRIES
COMMENT_MAX_RETRIES == 2

\* GitHubCommentAction.RATE_LIMIT_WINDOW, the window_seconds of its IssueRateLimiter
RATE_LIMIT_WINDOW == 3600

\* StateStore operations called directly on the store
MaxStoreOps == 3

\* the retention_days the store is built with, in days of the clock
RetentionDays == 1

(***************************************************************************)
(* Program constants of GitHubClient.                                      *)
(***************************************************************************)
RATE_LIMIT_THRESHOLD == 100

RATE_LIMIT_JITTER_MIN == 0

RATE_LIMIT_JITTER_MAX == 10

MAX_RETRIES == 4

INITIAL_BACKOFF_SECONDS == 60

MAX_BACKOFF_SECONDS == 480

SECONDARY_BACKOFF_MULTIPLIERS == <<1, 2, 4, 8>>

VARIABLES
    \* ---- GitHubClient ----
    rate_limit,                    \* self._rate_limit: None or Some([remaining, reset_in])
    secondary_rate_limit_retries,  \* self._secondary_rate_limit_retries
    cpc,                           \* position of the logical call: idle, try, returned, raised
    callKind,                      \* get (_request_with_retry) or page (_get_page_with_link)
    attempt,                       \* the for-loop index of _request_with_retry
    last_error,                    \* the local last_error
    outcome,                       \* what the logical call returned or raised
    requests,                      \* HTTP requests issued by the current logical call
    waitCount,                     \* retry sleeps performed by the current logical call
    lastWait,                      \* the retry sleep of the latest attempt
    proactiveWait,                 \* the _check_rate_limit sleep of the latest attempt
    lastResp,                      \* the response the latest attempt received
    lastCond,                      \* the condition the latest attempt ended in
    sawSuccess,                    \* an attempt of this call received 200 or 304
    consecSecondary,               \* consecutive secondary-limit hits on the client
    calls,                         \* logical calls started so far
    \* ---- Checkpoint.update chains ----
    ck,                            \* the Checkpoint object
    ckInputs,                      \* the event_timestamp arguments passed so far
    \* ---- StateStore (the tables of state.db) ----
    checkpoints,                   \* table checkpoints: id -> None or Some(row)
    processed_events,              \* table processed_events: rows keyed by event_id
    action_history,                \* table action_history: rows keyed by (event_id, rule_id)
    audit_log,                     \* table audit_log: the rows in insertion order
    now,                           \* the clock: datetime.now(UTC) and SQLite's 'now'
    lastOp,                        \* the latest StateStore call made directly: name, key, result
    storeOps,                      \* StateStore calls made directly so far
    \* ---- upstream and the poll cycle (cli._poll_cycle and its callers) ----
    upstream,                      \* notifications the API holds
    dry_run,                       \* the --dry-run flag
    ppc,                           \* position of the process: idle, fetch, match, record, audit
    checkpoint,                    \* the Checkpoint loaded at the start of the cycle
    queue,                         \* notifications get_notifications has yet to yield
    event,                         \* the notification being handled
    matches,                       \* result.matches not yet handled
    result,                        \* result.matches, as evaluated
    action_result,                 \* the ActionResult execute_all returned, not yet recorded
    actions_taken,                 \* the local actions_taken
    errors,                        \* the local errors of _poll_cycle
    disposition,                   \* the disposition computed for the event
    cycles,                        \* poll cycles started so far (the clock of the model)
    crashes,                       \* process crashes so far
    executions,                    \* every real execution of an action: [event, rule, cycle]
    \* ---- the daemon (cli._run_daemon_impl) ----
    dpc,                           \* position: init, loop, cycle, wait, after, sleep, finally, stopped
    shutdown_requested,            \* the global _shutdown_requested
    handlers,                      \* the SIGINT/SIGTERM handlers: original or installed
    store_open,                    \* the StateStore of the daemon is open
    daemon_cycles,                 \* the local cycles
    total_errors,                  \* the local total_errors
    sleep_left,                    \* sleep_end - time.time(), seconds
    sleepCall,                     \* seconds left of the sleep call in progress
    waits,                         \* client waits started in the current cycle
    sleepAtSignal,                 \* the signal arrived during the sleep still in progress
    sinceSignal,                   \* seconds that sleep has gone on since the signal
    \* ---- pagination (GitHubClient.get_paginated) ----
    gpc,                           \* position of the generator: idle, test, request, yield, done
    book,                          \* the pages the upstream holds
    linkKind,                      \* the form of the URLs in the Link headers
    max_pages,                     \* the argument max_pages
    params,                        \* the local params, per_page included
    next_url,                      \* the local next_url
    page_count,                    \* the local page_count
    current_params,                \* the local current_params
    buffer,                        \* items of the page in hand not yet yielded
    yielded,                       \* items handed to the consumer, in order
    pageRequests,                  \* every HTTP request issued: URL and query parameters
    pageFailures,                  \* requests that failed and were retried
    \* ---- schema migrations (state/migrations.py) ----
    mpc,                           \* position of migrate_database: unloaded, idle, loop
    current_schema_version,        \* CURRENT_SCHEMA_VERSION
    migrations,                    \* the versions MIGRATIONS has a function for
    schema_version,                \* table schema_version: the versions recorded
    target_version,                \* the argument target_version
    version,                       \* the loop variable version
    applied,                       \* the migrations the call has applied, in order
    versionBefore,                 \* get_schema_version when the call started
    migrateResult,                 \* what the latest call returned or raised
    migrateCalls,                  \* migrate_database calls so far
    \* ---- the entity cache (EntityCache, get_issue, get_pull_request) ----
    entity_cache,                  \* self._entity_cache._cache: key -> None or Some(payload)
    cacheCycles,                   \* poll cycles started, each with its client
    cycleLookups,                  \* keys looked up through the cache in this cycle
    lastLookup,                    \* the latest get_issue / get_pull_request and its result
    lookups,                       \* lookups made so far
    \* ---- the notification channels (SlackAction, GitHubCommentAction) ----
    npc,                           \* position of the action: idle, post, sleep
    channel,                       \* the action in progress: slack or github_comment
    sendAttempt,                   \* the for-loop index attempt of _send_with_retries
    postLog,                       \* what each POST of the current action met, in order
    sleeps,                        \* the retry delays the current action has slept, in order
    sendResult,                    \* what the latest execute returned or raised
    lastCall,                      \* the latest execute: its arguments, the limiter it found
    sendCalls,                     \* execute calls so far
    monotonic,                     \* time.monotonic()
    last_comment,                  \* IssueRateLimiter._last_comment: key -> None or Some(time)
    commentLog                     \* every comment posted: [key, at], in order

clientVars == <<rate_limit, secondary_rate_limit_retries, cpc, callKind, attempt, last_error,
                outcome, requests, waitCount, lastWait, proactiveWait, lastResp,
                lastCond, sawSuccess, consecSecondary, calls>>

checkpointVars == <<ck, ckInputs>>

storeVars == <<checkpoints, processed_events, action_history, audit_log>>

apiVars == <<now, lastOp, storeOps>>

cycleVars == <<checkpoint, queue, event, matches, result, action_result,
               actions_taken, errors, disposition>>

pollVars == <<upstream, dry_run, ppc, cycleVars, cycles, crashes, executions>>

daemonVars == <<dpc, shutdown_requested, handlers, store_open, daemon_cycles, total_errors,
                sleep_left, sleepCall, waits, sleepAtSignal, sinceSignal>>

\* the variables of the machines that run beside the client, the store and the poll cycle
pageVars == <<gpc, book, linkKind, max_pages, params, next_url, page_count, current_params, buffer,
              yielded, pageRequests, pageFailures>>

migrateVars == <<mpc, current_schema_version, migrations, schema_version, target_version,
                 version, applied, versionBefore, migrateResult, migrateCalls>>

cacheVars == <<entity_cache, cacheCycles, cycleLookups, lastLookup, lookups>>

notifyVars == <<npc, channel, sendAttempt, postLog, sleeps, sendResult, lastCall, sendCalls,
                monotonic, last_comment, commentLog>>

auxVars == <<daemonVars, pageVars, migrateVars, cacheVars, notifyVars>>

vars == <<clientVars, checkpointVars, storeVars, apiVars, pollVars, auxVars>>

(***************************************************************************)
(* HTTP responses.  A message is a sequence of words; the code lower-cases *)
(* it and looks for a phrase in it.                                        *)
(***************************************************************************)
MsgEmpty == <<>>

MsgPrimary == <<"API", "rate", "limit", "exceeded">>

MsgSecondary == <<"You", "have", "exceeded", "a", "secondary", "rate", "limit">>

MsgAbuse == <<"You", "have", "triggered", "an", "abuse", "detection", "mechanism">>

MsgDenied == <<"Resource", "not", "accessible">>

Messages == {MsgEmpty, MsgPrimary, MsgSecondary, MsgAbuse, MsgDenied}

LowerWord(w) ==
    CASE w = "API" -> "api"
      [] w = "You" -> "you"
      [] w = "Resource" -> "resource"
      [] OTHER -> w

Lower(msg) == [i \in 1..Len(msg) |-> LowerWord(msg[i])]

\* Python's `phrase in message`, on words
Contains(msg, phrase) ==
    \E i \in 0..(Len(msg) - Len(phrase)) :
        \A k \in 1..Len(phrase) : msg[i + k] = phrase[k]

\* values of the X-RateLimit-Remaining header
Remainings == {0, 50, 150}

\* seconds from the response to the X-RateLimit-Reset instant
ResetAfters == {30}

\* values of the Retry-After header of a 5xx response (0: header absent)
RetryAfters == {0, 7}

\* random.uniform(RATE_LIMIT_JITTER_MIN, RATE_LIMIT_JITTER_MAX), in whole seconds
Jitters == {RATE_LIMIT_JITTER_MIN, RATE_LIMIT_JITTER_MAX - 1}

Response(s, m, r, ra) ==
    [status_code |-> s, message |-> m, remaining |-> r,
     reset_after |-> CHOOSE x \in ResetAfters : TRUE, retry_after |-> ra]

Responses ==
    {Response(s, MsgEmpty, r, 0) : s \in {200, 304, 401, 404}, r \in Remainings}
    \cup {Response(403, m, r, 0) : m \in Messages, r \in Remainings}
    \cup {Response(429, m, r, 0) : m \in {MsgPrimary, MsgSecondary}, r \in {0, 50}}
    \cup {Response(500, MsgEmpty, 150, ra) : ra \in RetryAfters}

NoResponse == Response(0, MsgEmpty, 0, 0)

(***************************************************************************)
(* Exceptions.                                                             *)
(***************************************************************************)
NoError ==
    [type |-> "none", is_secondary |-> FALSE, status_code |-> 0,
     retry_after |-> 0, cause |-> "none"]

RateLimitError(secondary) ==
    [type |-> "RateLimitError", is_secondary |-> secondary, status_code |-> 403,
     retry_after |-> 0, cause |-> "none"]

TransientError(status, retryAfter) ==
    [type |-> "TransientError", is_secondary |-> FALSE, status_code |-> status,
     retry_after |-> retryAfter, cause |-> "none"]

RequestError ==
    [type |-> "RequestError", is_secondary |-> FALSE, status_code |-> 0,
     retry_after |-> 0, cause |-> "none"]

GitHubAPIError(status, cause) ==
    [type |-> "GitHubAPIError", is_secondary |-> FALSE, status_code |-> status,
     retry_after |-> 0, cause |-> cause]

Returned(value) == [kind |-> "returned", value |-> value, error |-> NoError]

Raised(e) == [kind |-> "raised", value |-> "none", error |-> e]

NoOutcome == [kind |-> "none", value |-> "none", error |-> NoError]

(***************************************************************************)
(* RateLimitInfo.from_headers: the snapshot taken from a response.  The    *)
(* reset instant is held relative to the clock (reset_at - now, seconds).  *)
(***************************************************************************)
FromHeaders(resp) == [remaining |-> resp.remaining, reset_in |-> resp.reset_after]

\* RateLimitInfo.seconds_until_reset
SecondsUntilReset(info) == Max(0, info.reset_in)

\* the snapshot after `secs` seconds of sleep (the difference to the clock is
\* kept down to -RATE_LIMIT_JITTER_MAX: below it every wait computed is 0)
Elapse(rl, secs) ==
    IF IsSome(rl)
    THEN Some([remaining |-> Get(rl).remaining,
               reset_in |-> Max(Get(rl).reset_in - secs, 0 - RATE_LIMIT_JITTER_MAX)])
    ELSE rl

(***************************************************************************)
(* GitHubClient._handle_response: classify a response.                     *)
(***************************************************************************)
IsPrimarySignal(resp) ==
    Contains(Lower(resp.message), <<"rate", "limit">>) \/ FromHeaders(resp).remaining = 0

IsSecondarySignal(resp) ==
    \/ Contains(Lower(resp.message), <<"secondary", "rate", "limit">>)
    \/ Contains(Lower(resp.message), <<"abuse">>)

HandleResponse(resp) ==
    IF resp.status_code = 200 THEN Returned("json")
    ELSE IF resp.status_code = 304 THEN Returned("empty")
    ELSE IF resp.status_code = 403 THEN
        IF IsPrimarySignal(resp) THEN Raised(RateLimitError(FALSE))
        ELSE IF IsSecondarySignal(resp) THEN Raised(RateLimitError(TRUE))
        ELSE Raised(GitHubAPIError(403, "none"))
    ELSE IF resp.status_code = 401 THEN Raised(GitHubAPIError(401, "none"))
    ELSE IF resp.status_code >= 500
        THEN Raised(TransientError(resp.status_code, resp.retry_after))
    ELSE Raised(GitHubAPIError(resp.status_code, "none"))

(***************************************************************************)
(* GitHubClient._check_rate_limit: the seconds slept before a request.     *)
(***************************************************************************)
\* _check_rate_limit returning at once whatever the snapshot says
CheckRateLimitNoPause(rl, jitter) == 0

CheckRateLimit(rl, jitter) ==
    IF ~IsSome(rl) THEN 0
    ELSE IF Get(rl).remaining < RATE_LIMIT_THRESHOLD
        THEN SecondsUntilReset(Get(rl)) + jitter
    ELSE 0

\* _check_rate_limit draws a jitter only when it pauses
CheckJitters(rl) ==
    IF IsSome(rl) /\ Get(rl).remaining < RATE_LIMIT_THRESHOLD THEN Jitters ELSE {0}

(***************************************************************************)
(* GitHubClient._request_with_retry and _get_page_with_link: the retry     *)
(* loop.  Both functions hold the same loop; one action is one iteration.  *)
(***************************************************************************)
NoWait == [kind |-> "none", secs |-> 0, attempt |-> 0]

Wait(kind, secs) == [kind |-> kind, secs |-> secs, attempt |-> attempt]

\* "Reset secondary rate limit counter on success": the assignment that
\* follows client.request(...) and precedes _handle_response
CounterAfterResponse(counter) == 0

\* the loop running one iteration too many: range(self.MAX_RETRIES + 1)
LoopExhaustedOneMore(a) == a >= MAX_RETRIES + 1

\* `for attempt in range(self.MAX_RETRIES)` is over
LoopExhausted(a) == a >= MAX_RETRIES

\* a backoff that does not grow with the attempt
ExponentialBackoffFlat(a) == INITIAL_BACKOFF_SECONDS

\* backoff of the TransientError and RequestError handlers
ExponentialBackoff(a) == Min(INITIAL_BACKOFF_SECONDS * Pow2(a), MAX_BACKOFF_SECONDS)

TransientBackoff(a, e) == IF e.retry_after /= 0 THEN e.retry_after ELSE ExponentialBackoff(a)

\* wait of the secondary branch of the RateLimitError handler
SecondaryBackoff(counter) == SECONDARY_BACKOFF_MULTIPLIERS[counter + 1] * 60

\* wait of the primary branch (e.reset_at is always set by _handle_response)
PrimaryBackoff(info, jitter) == Max(0, info.reset_in + jitter)

\* the statements after the loop swallowing the failure: an empty result
AfterLoopSwallowed(le) == Returned("empty")

\* the statements after the loop
AfterLoop(le) ==
    IF le = NoError THEN Raised(GitHubAPIError(0, "unknown"))
    ELSE IF le.type \in {"RateLimitError", "GitHubAPIError"} THEN Raised(le)
    ELSE Raised(GitHubAPIError(0, le.type))

\* the consecutive secondary-limit hits after a response (no success in between)
ConsecAfter(resp, h) ==
    IF resp.status_code \in {200, 304} THEN 0
    ELSE IF h.error.type = "RateLimitError" /\ h.error.is_secondary THEN consecSecondary + 1
    ELSE consecSecondary

StartCall(kind) ==
    /\ cpc \in {"idle", "returned", "raised"}
    /\ calls < MaxCalls
    /\ calls' = calls + 1
    /\ callKind' = kind
    /\ cpc' = "try"
    /\ attempt' = 0
    /\ last_error' = NoError
    /\ outcome' = NoOutcome
    /\ requests' = 0
    /\ waitCount' = 0
    /\ lastWait' = NoWait
    /\ proactiveWait' = 0
    /\ lastResp' = NoResponse
    /\ lastCond' = NoError
    /\ sawSuccess' = FALSE
    /\ UNCHANGED <<rate_limit, secondary_rate_limit_retries, consecSecondary>>

\* `await asyncio.sleep(wait); last_error = e; continue`, and the statements
\* after the loop when that was the last iteration
SleepAndContinue(w, e, rl) ==
    /\ lastWait' = w
    /\ waitCount' = waitCount + 1
    /\ last_error' = e
    /\ attempt' = attempt + 1
    /\ rate_limit' = Elapse(rl, w.secs)
    /\ IF LoopExhausted(attempt + 1)
       THEN \E o \in {AfterLoop(e)} : cpc' = o.kind /\ outcome' = o
       ELSE cpc' = "try" /\ outcome' = NoOutcome

\* the iteration ends the call: a return, or an exception that is not retried
Finish(o, rl) ==
    /\ lastWait' = NoWait
    /\ cpc' = o.kind
    /\ outcome' = o
    /\ rate_limit' = rl
    /\ UNCHANGED <<waitCount, last_error, attempt>>

\* handlers that back off and retry whatever the exception is
HandleExceptionRetryAll(e, counter, info, j) ==
    /\ SleepAndContinue(Wait("transient", ExponentialBackoff(attempt)), e, Some(info))
    /\ secondary_rate_limit_retries' = counter

\* the except handlers of the loop, for the exception e of _handle_response
HandleException(e, counter, info, j) ==
    IF e.type = "RateLimitError" /\ e.is_secondary
    THEN IF counter >= Len(SECONDARY_BACKOFF_MULTIPLIERS)
         THEN /\ Finish(Raised(e), Some(info))
              /\ secondary_rate_limit_retries' = counter
         ELSE /\ SleepAndContinue(Wait("secondary", SecondaryBackoff(counter)),
                                  e, Some(info))
              /\ secondary_rate_limit_retries' = counter + 1
    ELSE IF e.type = "RateLimitError"
    THEN /\ SleepAndContinue(Wait("primary", PrimaryBackoff(info, j)), e, Some(info))
         /\ secondary_rate_limit_retries' = counter
    ELSE IF e.type = "TransientError"
    THEN /\ SleepAndContinue(Wait("transient", TransientBackoff(attempt, e)),
                             e, Some(info))
         /\ secondary_rate_limit_retries' = counter
    ELSE /\ Finish(Raised(e), Some(info))
         /\ secondary_rate_limit_retries' = counter

\* an iteration whose request receives a response
AttemptResponse(resp, pj, j) ==
    /\ cpc = "try"
    /\ ~LoopExhausted(attempt)
    /\ \E h \in {HandleResponse(resp)} :
       \E counter \in {CounterAfterResponse(secondary_rate_limit_retries)} :
          /\ proactiveWait' = CheckRateLimit(rate_limit, pj)
          /\ requests' = requests + 1
          /\ lastResp' = resp
          /\ lastCond' = h.error
          /\ sawSuccess' = (sawSuccess \/ resp.status_code \in {200, 304})
          /\ consecSecondary' = ConsecAfter(resp, h)
          /\ IF h.kind = "returned"
             THEN /\ Finish(h, Some(FromHeaders(resp)))
                  /\ secondary_rate_limit_retries' = counter
             ELSE HandleException(h.error, counter, FromHeaders(resp), j)
    /\ UNCHANGED <<calls, callKind>>

\* an iteration whose request raises httpx.RequestError: no response is seen
AttemptNetworkError(pj) ==
    /\ cpc = "try"
    /\ ~LoopExhausted(attempt)
    /\ proactiveWait' = CheckRateLimit(rate_limit, pj)
    /\ requests' = requests + 1
    /\ lastResp' = NoResponse
    /\ lastCond' = RequestError
    /\ SleepAndContinue(Wait("network", ExponentialBackoff(attempt)), RequestError,
                        Elapse(rate_limit, CheckRateLimit(rate_limit, pj)))
    /\ UNCHANGED <<secondary_rate_limit_retries, sawSuccess, consecSecondary,
                   calls, callKind>>

\* the jitter of the primary branch is drawn only when that branch runs
PrimaryJitters(resp) ==
    IF HandleResponse(resp) = Raised(RateLimitError(FALSE)) THEN Jitters ELSE {0}

ClientRequest ==
    \E resp \in Responses : \E pj \in CheckJitters(rate_limit) :
        \E j \in PrimaryJitters(resp) : AttemptResponse(resp, pj, j)

ClientNetworkError == \E pj \in CheckJitters(rate_limit) : AttemptNetworkError(pj)

ClientStart == \E kind \in {"get", "page"} : StartCall(kind)

ClientStep == ClientRequest \/ ClientNetworkError

InitClient ==
    /\ rate_limit = None
    /\ secondary_rate_limit_retries = 0
    /\ cpc = "idle"
    /\ callKind = "get"
    /\ attempt = 0
    /\ last_error = NoError
    /\ outcome = NoOutcome
    /\ requests = 0
    /\ waitCount = 0
    /\ lastWait = NoWait
    /\ proactiveWait = 0
    /\ lastResp = NoResponse
    /\ lastCond = NoError
    /\ sawSuccess = FALSE
    /\ consecSecondary = 0
    /\ calls = 0

(***************************************************************************)
(* Checkpoint.update, chained from an empty checkpoint.                    *)
(***************************************************************************)
Timestamps == 1..MaxTime

OptTimestamps == {None} \cup {Some(t) : t \in Timestamps}

EmptyCheckpoint == [id |-> "main", last_event_timestamp |-> None, last_poll_timestamp |-> None]

\* update without the comparison: the argument always replaces the timestamp
UpdateUnordered(c, event_timestamp, poll_timestamp) ==
    [id |-> c.id,
     last_event_timestamp |->
        IF IsSome(event_timestamp) THEN event_timestamp ELSE c.last_event_timestamp,
     last_poll_timestamp |->
        IF IsSome(poll_timestamp) THEN poll_timestamp ELSE c.last_poll_timestamp]

\* Checkpoint.update(event_timestamp, poll_timestamp)
Update(c, event_timestamp, poll_timestamp) ==
    LET new_event_ts ==
            IF IsSome(event_timestamp)
               /\ (~IsSome(c.last_event_timestamp)
                   \/ Get(event_timestamp) > Get(c.last_event_timestamp))
            THEN event_timestamp
            ELSE c.last_event_timestamp
        new_poll_ts ==
            IF IsSome(poll_timestamp) THEN poll_timestamp ELSE c.last_poll_timestamp
    IN [id |-> c.id, last_event_timestamp |-> new_event_ts,
        last_poll_timestamp |-> new_poll_ts]

CheckpointUpdate ==
    /\ Len(ckInputs) < MaxUpdates
    /\ \E t \in OptTimestamps :
        /\ ck' = Update(ck, t, None)
        /\ ckInputs' = Append(ckInputs, t)

InitCheckpoint ==
    /\ ck = EmptyCheckpoint
    /\ ckInputs = <<>>

(***************************************************************************)
(* Time.  An instant is a day and a time of day; the store writes instants *)
(* as text and SQLite compares the texts.  A text is the sequence of the    *)
(* date, the code of the character that follows it, and the time of day.   *)
(***************************************************************************)
DayTimes == {0, 1}

Times == [day : 0..MaxDay, sec : DayTimes]

\* chronological order of instants
Before(a, b) == a.day < b.day \/ (a.day = b.day /\ a.sec < b.sec)

\* datetime.isoformat(): "YYYY-MM-DDTHH:MM:SS+00:00"; the date is followed by "T" (84)
IsoFormat(t) == <<t.day, 84, t.sec>>

\* SQLite datetime('now'): "YYYY-MM-DD HH:MM:SS"; the date is followed by " " (32)
SqliteDatetime(t) == <<t.day, 32, t.sec>>

\* SQLite's `<` on two TEXT values: character by character
RECURSIVE TextLess(_, _)
TextLess(a, b) ==
    IF b = <<>> THEN FALSE
    ELSE IF a = <<>> THEN TRUE
    ELSE IF Head(a) /= Head(b) THEN Head(a) < Head(b)
    ELSE TextLess(Tail(a), Tail(b))

\* datetime.now(UTC) + timedelta(days=self.retention_days)
TtlExpires(t) == [day |-> t.day + RetentionDays, sec |-> t.sec]

(***************************************************************************)
(* StateStore: the tables and the operations on them.  Every operation is  *)
(* one committed transaction.                                              *)
(***************************************************************************)
CheckpointIds == {"main"}

Checkpoint(id, event_ts, poll_ts) ==
    [id |-> id, last_event_timestamp |-> event_ts, last_poll_timestamp |-> poll_ts]

\* StateStore.get_checkpoint
GetCheckpoint(id) ==
    IF IsSome(checkpoints[id]) THEN Get(checkpoints[id]) ELSE Checkpoint(id, None, None)

\* StateStore.save_checkpoint: INSERT OR REPLACE INTO checkpoints
SaveCheckpointRows(rows, cp) == [rows EXCEPT ![cp.id] = Some(cp)]

\* an is_processed that never finds the row
IsProcessedNever(event_id) == FALSE

\* StateStore.is_processed
IsProcessed(event_id) == \E row \in processed_events : row.event_id = event_id

\* a mark_processed that replaces the whole table by the new row
MarkProcessedRowsOnly(rows, event_id, event_type, disp, ttl_expires) ==
    {[event_id |-> event_id, event_type |-> event_type, disposition |-> disp,
      ttl_expires_at |-> IsoFormat(ttl_expires)]}

\* a cleanup that deletes every row, expired or not
ExpiredRowsAll(rows, t) == rows

\* StateStore.mark_processed: INSERT OR REPLACE INTO processed_events
MarkProcessedRows(rows, event_id, event_type, disp, ttl_expires) ==
    {row \in rows : row.event_id /= event_id}
    \cup {[event_id |-> event_id, event_type |-> event_type, disposition |-> disp,
           ttl_expires_at |-> IsoFormat(ttl_expires)]}

\* StateStore.cleanup_expired: the rows DELETE ... WHERE ttl_expires_at < datetime('now') removes
ExpiredRows(rows, t) == {row \in rows : TextLess(row.ttl_expires_at, SqliteDatetime(t))}

\* StateStore.has_action_executed
HasActionExecuted(event_id, rule_id) ==
    \E row \in action_history : row.event_id = event_id /\ row.rule_id = rule_id

\* a record_action that is a plain INSERT: an earlier row of the pair is kept
RecordActionRowsInsert(rows, event_id, rule_id, action_type, res) ==
    rows \cup {[event_id |-> event_id, rule_id |-> rule_id, action_type |-> action_type,
                result |-> res]}

\* StateStore.record_action: INSERT OR REPLACE INTO action_history
RecordActionRows(rows, event_id, rule_id, action_type, res) ==
    {row \in rows : ~(row.event_id = event_id /\ row.rule_id = rule_id)}
    \cup {[event_id |-> event_id, rule_id |-> rule_id, action_type |-> action_type,
           result |-> res]}

\* the ids (positions) of the rows that pass "timestamp >= ?" with since.isoformat(),
\* a comparison of TEXT
QueryMatches(rows, since) ==
    {i \in 1..Len(rows) :
        ~IsSome(since) \/ ~TextLess(rows[i].timestamp, IsoFormat(Get(since)))}

\* StateStore.query_audit_log without rule_id: ORDER BY timestamp DESC LIMIT ?; the
\* results it can return, as sequences of row ids (rows of one timestamp in any order)
QueryAuditLog(rows, since, limit) ==
    LET m == QueryMatches(rows, since)
        n == Min(limit, Cardinality(m))
    IN {s \in [1..n -> m] :
          /\ \A i \in 1..n : \A j \in 1..n : i /= j => s[i] /= s[j]
          /\ \A i \in 1..(n - 1) :
                ~TextLess(rows[s[i]].timestamp, rows[s[i + 1]].timestamp)
          /\ \A k \in m \ {s[i] : i \in 1..n} : \A i \in 1..n :
                ~TextLess(rows[s[i]].timestamp, rows[k].timestamp)}

\* StateStore._make_threshold_key: f"threshold:{entity_id}:{rule_id}:{threshold}"
MakeThresholdKey(entity_id, rule_id, threshold) ==
    <<"threshold", ":">> \o entity_id \o <<":">> \o rule_id \o <<":">> \o threshold

\* StateStore.has_threshold_fired
HasThresholdFired(entity_id, rule_id, threshold) ==
    HasActionExecuted(MakeThresholdKey(entity_id, rule_id, threshold), rule_id)

\* a write_audit_entry that replaces the latest row
WriteAuditRowsReplace(rows, t, disp, event_id, event_type, rules_evaluated, taken) ==
    IF rows = <<>>
    THEN <<[timestamp |-> SqliteDatetime(t), event_id |-> event_id,
            event_type |-> event_type, disposition |-> disp,
            rules_evaluated |-> rules_evaluated, actions_taken |-> taken]>>
    ELSE [rows EXCEPT ![Len(rows)] =
             [timestamp |-> SqliteDatetime(t), event_id |-> event_id,
              event_type |-> event_type, disposition |-> disp,
              rules_evaluated |-> rules_evaluated, actions_taken |-> taken]]

\* StateStore.write_audit_entry: INSERT INTO audit_log
WriteAuditRows(rows, t, disp, event_id, event_type, rules_evaluated, taken) ==
    Append(rows, [timestamp |-> SqliteDatetime(t), event_id |-> event_id,
                  event_type |-> event_type, disposition |-> disp,
                  rules_evaluated |-> rules_evaluated, actions_taken |-> taken])

(***************************************************************************)
(* Notifications and rules.  Identifiers are sequences of words.           *)
(***************************************************************************)
EntityA == <<"acme/app#7">>

EntityB == <<"acme/app#9">>

\* normalize_notification: id is "notif_<id>", timestamp is updated_at; overdue
\* says whether a time_since condition holds of the event when it is evaluated
Notification(n, entity, type, ts, overdue) ==
    [id |-> <<"notif_", n>>, entity_id |-> entity, event_type |-> type,
     timestamp |-> ts, overdue |-> overdue]

NotificationList ==
    << Notification("1", EntityA, "review_requested", 1, TRUE),
       Notification("2", EntityA, "mention", 2, TRUE),
       Notification("3", EntityB, "assign", 2, TRUE) >>

Notifications == {NotificationList[i] : i \in 1..Len(NotificationList)}

NoEvent == Notification("0", <<>>, "none", 0, FALSE)

\* cfg.get_enabled_rules(): a rule with a time_since condition and a plain rule
RuleList ==
    << [id |-> <<"stale_pr">>, event_types |-> {"review_requested", "mention"},
        time_since |-> Some(<<"48h">>), action_type |-> "slack"],
       [id |-> <<"mentions">>, event_types |-> {"mention"},
        time_since |-> None, action_type |-> "console"] >>

RuleOf(rule_id) == CHOOSE r \in {RuleList[i] : i \in 1..Len(RuleList)} : r.id = rule_id

RuleIds == {RuleList[i].id : i \in 1..Len(RuleList)}

\* RulesEngine._evaluate_rule: the trigger's event type, then every condition
EvaluateRule(ev, rule) ==
    /\ ev.event_type \in rule.event_types
    /\ IsSome(rule.time_since) => ev.overdue

\* RulesEngine._is_threshold_rule
IsThresholdRule(rule) == IsSome(rule.time_since)

\* RulesEngine._get_rule_threshold
GetRuleThreshold(rule) == IF IsSome(rule.time_since) THEN Get(rule.time_since) ELSE <<"default">>

\* the state_store the poll cycle gives its engine: RulesEngine(rules)
EngineStateStore == None

\* RulesEngine.evaluate: the ids of the matching rules, in rule order
Evaluate(ev, state_store) ==
    LET Keep(rule) ==
            /\ EvaluateRule(ev, rule)
            /\ ~(/\ IsThresholdRule(rule)
                 /\ IsSome(state_store)
                 /\ HasThresholdFired(ev.entity_id, rule.id, GetRuleThreshold(rule)))
        kept == SelectSeq(RuleList, Keep)
    IN [i \in 1..Len(kept) |-> kept[i].id]

\* what get_notifications(since=since) yields, in upstream order
After(ts, since) == ~IsSome(since) \/ ts > Get(since)

Fetch(since) ==
    SelectSeq(NotificationList, LAMBDA n : n \in upstream /\ After(n.timestamp, since))

(***************************************************************************)
(* The poll cycle: cli._poll_cycle under _run_once_impl / _run_daemon_impl *)
(***************************************************************************)
NoResult == "none"

\* statuses execute_all can return outside dry-run mode
ActionStatuses == {"success", "failure", "skipped"}

IdleCycle ==
    /\ checkpoint = Checkpoint("main", None, None)
    /\ queue = <<>>
    /\ event = NoEvent
    /\ matches = <<>>
    /\ result = <<>>
    /\ action_result = NoResult
    /\ actions_taken = <<>>
    /\ errors = 0
    /\ disposition = "none"

\* the locals of a cycle that is over
LeaveCycle ==
    /\ checkpoint' = Checkpoint("main", None, None)
    /\ queue' = <<>>
    /\ event' = NoEvent
    /\ matches' = <<>>
    /\ result' = <<>>
    /\ action_result' = NoResult
    /\ actions_taken' = <<>>
    /\ errors' = 0
    /\ disposition' = "none"

\* a notification appears upstream (seen by the next get_notifications)
NotificationArrives(n) ==
    /\ ppc = "idle"
    /\ n \notin upstream
    /\ upstream' = upstream \cup {n}
    /\ UNCHANGED <<storeVars, dry_run, ppc, cycleVars, cycles, crashes, executions>>

\* the public saveCheckpoint, called with a Checkpoint object of the caller
SaveCheckpoint(cp) ==
    /\ ppc = "idle"
    /\ checkpoints' = SaveCheckpointRows(checkpoints, cp)
    /\ UNCHANGED <<processed_events, action_history, audit_log, pollVars>>

\* load the checkpoint, compute since, open get_notifications(since)
StartCycle ==
    /\ ppc = "idle"
    /\ cycles < MaxCycles
    /\ cycles' = cycles + 1
    /\ checkpoint' = GetCheckpoint("main")
    /\ queue' = Fetch(GetCheckpoint("main").last_event_timestamp)
    /\ errors' = 0
    /\ ppc' = "fetch"
    /\ UNCHANGED <<storeVars, upstream, dry_run, event, matches, result, action_result,
                   actions_taken, disposition, crashes, executions>>

\* the next notification: skipped when processed, evaluated otherwise
NextNotification ==
    /\ ppc = "fetch"
    /\ queue /= <<>>
    /\ queue' = Tail(queue)
    /\ IF IsProcessed(Head(queue).id)
       THEN UNCHANGED <<ppc, event, matches, result, actions_taken>>
       ELSE /\ event' = Head(queue)
            /\ result' = Evaluate(Head(queue), EngineStateStore)
            /\ matches' = Evaluate(Head(queue), EngineStateStore)
            /\ actions_taken' = <<>>
            /\ ppc' = "match"
    /\ UNCHANGED <<storeVars, upstream, dry_run, checkpoint, action_result, errors,
                   disposition, cycles, crashes, executions>>

\* one match: skipped when its action is on record, executed otherwise
ExecuteMatch(status) ==
    /\ ppc = "match"
    /\ matches /= <<>>
    /\ IF HasActionExecuted(event.id, Head(matches))
       THEN /\ matches' = Tail(matches)
            /\ UNCHANGED <<ppc, action_result, executions>>
       ELSE /\ action_result' = IF dry_run THEN "dry_run" ELSE status
            /\ executions' =
                 IF dry_run THEN executions
                 ELSE executions \cup {[event |-> event.id, rule |-> Head(matches),
                                        entity |-> event.entity_id, cycle |-> cycles]}
            /\ ppc' = "record"
            /\ UNCHANGED matches
    /\ UNCHANGED <<storeVars, upstream, dry_run, checkpoint, queue, event, result,
                   actions_taken, errors, disposition, cycles, crashes>>

\* the loop over action_results: record_action for a success or a failure
RecordResult ==
    /\ ppc = "record"
    /\ LET rule == RuleOf(Head(matches))
           taken == [action_type |-> rule.action_type, result |-> action_result]
       IN CASE action_result = "success" ->
                 /\ action_history' = RecordActionRows(action_history, event.id, rule.id,
                                                       rule.action_type, "success")
                 /\ actions_taken' = Append(actions_taken, taken)
                 /\ UNCHANGED errors
            [] action_result = "failure" ->
                 /\ errors' = errors + 1
                 /\ action_history' = RecordActionRows(action_history, event.id, rule.id,
                                                       rule.action_type, "failed")
                 /\ actions_taken' = Append(actions_taken, taken)
            [] action_result = "dry_run" ->
                 /\ actions_taken' = Append(actions_taken, taken)
                 /\ UNCHANGED <<action_history, errors>>
            [] OTHER -> UNCHANGED <<action_history, actions_taken, errors>>
    /\ matches' = Tail(matches)
    /\ action_result' = NoResult
    /\ ppc' = "match"
    /\ UNCHANGED <<checkpoints, processed_events, audit_log, upstream, dry_run,
                   checkpoint, queue, event, result, disposition, cycles, crashes,
                   executions>>

\* "Determine disposition"
Disposition(matched, dry, errs) ==
    IF matched
    THEN IF dry THEN "dry_run" ELSE IF errs > 0 THEN "error" ELSE "action_executed"
    ELSE "no_match"

\* every match is handled: compute the disposition, mark_processed
MarkProcessed ==
    /\ ppc = "match"
    /\ matches = <<>>
    /\ disposition' = Disposition(result /= <<>>, dry_run, errors)
    /\ processed_events' = MarkProcessedRows(processed_events, event.id, event.event_type,
                                             Disposition(result /= <<>>, dry_run, errors),
                                             TtlExpires(now))
    /\ ppc' = "audit"
    /\ UNCHANGED <<checkpoints, action_history, audit_log, upstream, dry_run, checkpoint,
                   queue, event, matches, result, action_result, actions_taken, errors,
                   cycles, crashes, executions>>

\* write_audit_entry, then back to the notification loop
WriteAuditEntry ==
    /\ ppc = "audit"
    /\ audit_log' = WriteAuditRows(audit_log, now, disposition, event.id, event.event_type,
                                   result, actions_taken)
    /\ ppc' = "fetch"
    /\ event' = NoEvent
    /\ result' = <<>>
    /\ actions_taken' = <<>>
    /\ disposition' = "none"
    /\ UNCHANGED <<checkpoints, processed_events, action_history, upstream, dry_run,
                   checkpoint, queue, matches, action_result, errors, cycles, crashes,
                   executions>>

\* the cycle returned: last_poll_timestamp = now, save_checkpoint(checkpoint)
EndCycle ==
    /\ ppc = "fetch"
    /\ queue = <<>>
    /\ checkpoints' = SaveCheckpointRows(checkpoints,
            Checkpoint(checkpoint.id, checkpoint.last_event_timestamp, Some(cycles)))
    /\ ppc' = "idle"
    /\ LeaveCycle
    /\ UNCHANGED <<processed_events, action_history, audit_log, upstream, dry_run,
                   cycles, crashes, executions>>

\* get_notifications raises while the next page is fetched: the cycle fails,
\* the checkpoint is not saved
FetchFails ==
    /\ ppc = "fetch"
    /\ queue /= <<>>
    /\ ppc' = "idle"
    /\ LeaveCycle
    /\ UNCHANGED <<storeVars, upstream, dry_run, cycles, crashes, executions>>

\* the process is killed inside a cycle and started again: what is not in
\* the store is lost
Crash ==
    /\ ppc \in {"fetch", "match", "record", "audit"}
    /\ crashes < MaxCrashes
    /\ crashes' = crashes + 1
    /\ ppc' = "idle"
    /\ LeaveCycle
    /\ UNCHANGED <<storeVars, upstream, dry_run, cycles, executions>>

InitStore ==
    /\ checkpoints = [id \in CheckpointIds |-> None]
    /\ processed_events = {}
    /\ action_history = {}
    /\ audit_log = <<>>

NoOp == [name |-> "none", key |-> <<>>, args |-> <<>>, ret |-> None, raised |-> FALSE]

InitApi ==
    /\ now = [day |-> 0, sec |-> 0]
    /\ lastOp = NoOp
    /\ storeOps = 0

InitPoll(dry_runs) ==
    /\ upstream = {}
    /\ dry_run \in dry_runs
    /\ ppc = "idle"
    /\ IdleCycle
    /\ cycles = 0
    /\ crashes = 0
    /\ executions = {}

\* the process is started with or without --dry-run
(***************************************************************************)
(* StateStore called directly.  Every mutating operation runs its one      *)
(* statement inside `with self.transaction()`; `fault` says that an         *)
(* exception is raised inside the block after the statement ran.           *)
(***************************************************************************)
\* a transaction that commits what the statement wrote even when the block raised
TransactionNoRollback(before, after, fault) == after

\* StateStore.transaction: commit on normal exit, rollback and re-raise otherwise
Transaction(before, after, fault) == IF fault THEN before ELSE after

\* the clock moves on
Tick ==
    /\ \E t \in Times : Before(now, t) /\ now' = t
    /\ UNCHANGED <<storeVars, lastOp, storeOps>>

\* a call of the operation `name`: what the caller gets back
Call(name, key, args, ret, fault) ==
    /\ storeOps < MaxStoreOps
    /\ storeOps' = storeOps + 1
    /\ lastOp' = [name |-> name, key |-> key, args |-> args,
                  ret |-> IF fault THEN None ELSE ret, raised |-> fault]
    /\ UNCHANGED now

StoreEventIds == {NotificationList[1].id, NotificationList[2].id}

StoreDispositions == {"action_executed", "no_match"}

StoreResults == {"success", "failed"}

StoreMarkProcessed(event_id, disp, fault) ==
    /\ Call("mark_processed", event_id, <<disp>>, None, fault)
    /\ processed_events' =
          Transaction(processed_events,
                      MarkProcessedRows(processed_events, event_id, "mention", disp,
                                        TtlExpires(now)),
                      fault)
    /\ UNCHANGED <<checkpoints, action_history, audit_log>>

StoreCleanupExpired(fault) ==
    /\ Call("cleanup_expired", <<>>, <<>>,
            Some(Cardinality(ExpiredRows(processed_events, now))), fault)
    /\ processed_events' =
          Transaction(processed_events,
                      processed_events \ ExpiredRows(processed_events, now), fault)
    /\ UNCHANGED <<checkpoints, action_history, audit_log>>

StoreRecordAction(event_id, rule_id, res, fault) ==
    /\ Call("record_action", <<event_id, rule_id>>,
            <<RuleOf(rule_id).action_type, res>>, None, fault)
    /\ action_history' =
          Transaction(action_history,
                      RecordActionRows(action_history, event_id, rule_id,
                                       RuleOf(rule_id).action_type, res),
                      fault)
    /\ UNCHANGED <<checkpoints, processed_events, audit_log>>

\* the (entity, rule, threshold) triples the threshold operations are called with
ThresholdKeys ==
    {<<e, r.id, GetRuleThreshold(r)>> :
        e \in {EntityA, EntityB},
        r \in {x \in {RuleList[i] : i \in 1..Len(RuleList)} : IsThresholdRule(x)}}

\* StateStore.record_threshold_fired: record_action under the dedupe key
StoreRecordThresholdFired(k, res, fault) ==
    /\ Call("record_threshold_fired", k, <<RuleOf(k[2]).action_type, res>>, None, fault)
    /\ action_history' =
          Transaction(action_history,
                      RecordActionRows(action_history, MakeThresholdKey(k[1], k[2], k[3]),
                                       k[2], RuleOf(k[2]).action_type, res),
                      fault)
    /\ UNCHANGED <<checkpoints, processed_events, audit_log>>

\* a clear_threshold_fired that reports a deletion and deletes nothing
StoreClearThresholdFiredKeepsRow(k, fault) ==
    /\ Call("clear_threshold_fired", k, <<>>, Some(TRUE), fault)
    /\ UNCHANGED <<checkpoints, processed_events, action_history, audit_log>>

\* StateStore.clear_threshold_fired: DELETE the row, return rowcount > 0
StoreClearThresholdFired(k, fault) ==
    /\ Call("clear_threshold_fired", k, <<>>,
            Some(HasActionExecuted(MakeThresholdKey(k[1], k[2], k[3]), k[2])), fault)
    /\ action_history' =
          Transaction(action_history,
                      {row \in action_history :
                          ~(/\ row.event_id = MakeThresholdKey(k[1], k[2], k[3])
                            /\ row.rule_id = k[2])},
                      fault)
    /\ UNCHANGED <<checkpoints, processed_events, audit_log>>

StoreSaveCheckpoint(cp, fault) ==
    /\ Call("save_checkpoint", cp.id, <<cp>>, None, fault)
    /\ checkpoints' = Transaction(checkpoints, SaveCheckpointRows(checkpoints, cp), fault)
    /\ UNCHANGED <<processed_events, action_history, audit_log>>

StoreWriteAuditEntry(disp, event_id, fault) ==
    /\ Call("write_audit_entry", event_id, <<disp>>, Some(Len(audit_log) + 1), fault)
    /\ audit_log' =
          Transaction(audit_log,
                      WriteAuditRows(audit_log, now, disp, event_id, "mention", <<>>, <<>>),
                      fault)
    /\ UNCHANGED <<checkpoints, processed_events, action_history>>

\* StateStore.query_audit_log(since, limit=limit): a read, outside any transaction
StoreQueryAuditLog(since, limit) ==
    /\ \E res \in QueryAuditLog(audit_log, since, limit) :
          Call("query_audit_log", <<>>, <<since, limit>>, Some(res), FALSE)
    /\ UNCHANGED <<checkpoints, processed_events, action_history, audit_log>>

ApiMarkProcessed ==
    \E id \in StoreEventIds : \E disp \in StoreDispositions : \E fault \in BOOLEAN :
        StoreMarkProcessed(id, disp, fault)

ApiCleanupExpired == \E fault \in BOOLEAN : StoreCleanupExpired(fault)

ApiRecordAction ==
    \E id \in {NotificationList[1].id} : \E r \in RuleIds : \E res \in StoreResults :
        \E fault \in BOOLEAN : StoreRecordAction(id, r, res, fault)

ApiRecordThresholdFired ==
    \E k \in ThresholdKeys : \E fault \in BOOLEAN :
        StoreRecordThresholdFired(k, "success", fault)

ApiClearThresholdFired ==
    \E k \in ThresholdKeys : \E fault \in BOOLEAN : StoreClearThresholdFired(k, fault)

ApiStoreSaveCheckpoint ==
    \E t \in {1, MaxTime} : \E fault \in BOOLEAN :
        StoreSaveCheckpoint(Checkpoint("main", Some(t), None), fault)

\* the audit log is queried from the start of the clock, from now on, or without since
ApiQueryAuditLog ==
    \E since \in {None, Some(now), Some([day |-> 0, sec |-> 0])} : \E limit \in 1..MaxLimit :
        StoreQueryAuditLog(since, limit)

ApiWriteAuditEntry ==
    \E fault \in BOOLEAN :
        StoreWriteAuditEntry("no_match", NotificationList[1].id, fault)

(***************************************************************************)
(* The daemon: cli._run_daemon_impl and cli._signal_handler.  Time is      *)
(* counted in seconds; a sleep call of d seconds is d steps of the clock   *)
(* during which the caller tests nothing.                                  *)
(***************************************************************************)
\* poll_interval + jitter, in seconds
SleepTimes == {1, 2}

\* the waits the client sleeps inside a cycle (rate-limit pause, backoff), in seconds
WaitTimes == {1, 3}

\* time.sleep(min(1.0, sleep_end - time.time()))
SleepIncrement == 1

InitDaemon ==
    /\ dpc = "init"
    /\ shutdown_requested = FALSE
    /\ handlers = "original"
    /\ store_open = FALSE
    /\ daemon_cycles = 0
    /\ total_errors = 0
    /\ sleep_left = 0
    /\ sleepCall = 0
    /\ waits = 0
    /\ sleepAtSignal = FALSE
    /\ sinceSignal = 0

\* _run_daemon_impl up to the loop: reset the flag, install the handlers,
\* open the store, validate the token
DaemonStart(auth_ok) ==
    /\ dpc = "init"
    /\ shutdown_requested' = FALSE
    /\ IF auth_ok
       THEN /\ dpc' = "loop"
            /\ store_open' = TRUE
       ELSE /\ dpc' = "auth_error"
            /\ store_open' = FALSE
    /\ handlers' = "installed"
    /\ UNCHANGED <<daemon_cycles, total_errors, sleep_left, sleepCall, waits,
                   sleepAtSignal, sinceSignal>>

\* _signal_handler: SIGINT or SIGTERM arrives while the handlers are installed
Signal ==
    /\ handlers = "installed"
    /\ dpc \notin {"auth_error"}
    /\ ~shutdown_requested
    /\ shutdown_requested' = TRUE
    /\ sleepAtSignal' = (dpc \in {"sleep", "wait"})
    /\ sinceSignal' = 0
    /\ UNCHANGED <<dpc, handlers, store_open, daemon_cycles, total_errors, sleep_left,
                   sleepCall, waits>>

\* a loop that never looks at the flag
LoopTestIgnoresSignal ==
    /\ dpc = "loop"
    /\ daemon_cycles < MaxDaemonCycles
    /\ daemon_cycles' = daemon_cycles + 1
    /\ dpc' = "cycle"
    /\ waits' = 0
    /\ UNCHANGED <<shutdown_requested, handlers, store_open, total_errors, sleep_left,
                   sleepCall, sleepAtSignal, sinceSignal>>

\* while not _shutdown_requested: cycles += 1, load the checkpoint, enter the try
LoopTest ==
    /\ dpc = "loop"
    /\ IF shutdown_requested
       THEN dpc' = "finally" /\ UNCHANGED daemon_cycles
       ELSE /\ daemon_cycles < MaxDaemonCycles
            /\ daemon_cycles' = daemon_cycles + 1
            /\ dpc' = "cycle"
    /\ waits' = 0
    /\ UNCHANGED <<shutdown_requested, handlers, store_open, total_errors, sleep_left,
                   sleepCall, sleepAtSignal, sinceSignal>>

\* inside _poll_cycle the client starts a wait: await asyncio.sleep(wait_time)
ClientWaitBegins(w) ==
    /\ dpc = "cycle"
    /\ waits < MaxWaits
    /\ waits' = waits + 1
    /\ sleepCall' = w
    /\ dpc' = "wait"
    /\ UNCHANGED <<shutdown_requested, handlers, store_open, daemon_cycles, total_errors,
                   sleep_left, sleepAtSignal, sinceSignal>>

\* one second of the sleep call in progress
SleepSecond ==
    /\ dpc \in {"sleep", "wait"}
    /\ sleepCall > 0
    /\ sleepCall' = sleepCall - 1
    /\ sleep_left' = IF dpc = "sleep" THEN sleep_left - 1 ELSE sleep_left
    /\ sinceSignal' = IF shutdown_requested /\ sleepAtSignal THEN sinceSignal + 1
                      ELSE sinceSignal
    /\ UNCHANGED <<dpc, shutdown_requested, handlers, store_open, daemon_cycles,
                   total_errors, waits, sleepAtSignal>>

\* asyncio.sleep returned: the request loop goes on
ClientWaitEnds ==
    /\ dpc = "wait"
    /\ sleepCall = 0
    /\ dpc' = "cycle"
    /\ sleepAtSignal' = FALSE
    /\ UNCHANGED <<shutdown_requested, handlers, store_open, daemon_cycles, total_errors,
                   sleep_left, sleepCall, waits, sinceSignal>>

\* _poll_cycle returned and save_checkpoint returned
CycleReturns ==
    /\ dpc = "cycle"
    /\ dpc' = "after"
    /\ UNCHANGED <<shutdown_requested, handlers, store_open, daemon_cycles, total_errors,
                   sleep_left, sleepCall, waits, sleepAtSignal, sinceSignal>>

\* a failed cycle whose exception leaves the loop
CycleRaisesEscapes ==
    /\ dpc = "cycle"
    /\ dpc' = "finally"
    /\ UNCHANGED <<shutdown_requested, handlers, store_open, daemon_cycles, total_errors,
                   sleep_left, sleepCall, waits, sleepAtSignal, sinceSignal>>

\* except Exception: log.exception("Poll cycle failed"), total_errors += 1
CycleRaises ==
    /\ dpc = "cycle"
    /\ total_errors' = total_errors + 1
    /\ dpc' = "after"
    /\ UNCHANGED <<shutdown_requested, handlers, store_open, daemon_cycles, sleep_left,
                   sleepCall, waits, sleepAtSignal, sinceSignal>>

\* if _shutdown_requested: break; otherwise sleep_end = time.time() + sleep_time
AfterCycle(sleep_time) ==
    /\ dpc = "after"
    /\ IF shutdown_requested
       THEN dpc' = "finally" /\ UNCHANGED sleep_left
       ELSE dpc' = "sleep" /\ sleep_left' = sleep_time
    /\ UNCHANGED <<shutdown_requested, handlers, store_open, daemon_cycles, total_errors,
                   sleepCall, waits, sleepAtSignal, sinceSignal>>

\* while time.time() < sleep_end and not _shutdown_requested: time.sleep(min(1.0, ...))
SleepTest ==
    /\ dpc = "sleep"
    /\ sleepCall = 0
    /\ IF sleep_left > 0 /\ ~shutdown_requested
       THEN /\ sleepCall' = Min(SleepIncrement, sleep_left)
            /\ UNCHANGED <<dpc, sleepAtSignal>>
       ELSE /\ dpc' = "loop"
            /\ sleepAtSignal' = FALSE
            /\ UNCHANGED sleepCall
    /\ UNCHANGED <<shutdown_requested, handlers, store_open, daemon_cycles, total_errors,
                   sleep_left, waits, sinceSignal>>

\* finally: restore the signal handlers, store.close()
DaemonFinally ==
    /\ dpc = "finally"
    /\ handlers' = "original"
    /\ store_open' = FALSE
    /\ dpc' = "stopped"
    /\ UNCHANGED <<shutdown_requested, daemon_cycles, total_errors, sleep_left, sleepCall,
                   waits, sleepAtSignal, sinceSignal>>

Start == \E auth_ok \in BOOLEAN : DaemonStart(auth_ok)

ClientWait == \E w \in WaitTimes : ClientWaitBegins(w)

EndOfCycle == \E sleep_time \in SleepTimes : AfterCycle(sleep_time)

\* the steps of the daemon itself; the signal is the environment's
DaemonStep ==
    \/ Start
    \/ LoopTest
    \/ ClientWait
    \/ SleepSecond
    \/ ClientWaitEnds
    \/ CycleReturns
    \/ CycleRaises
    \/ EndOfCycle
    \/ SleepTest
    \/ DaemonFinally

(***************************************************************************)
(* Pagination: GitHubClient.get_paginated over _get_page_with_link.  The   *)
(* upstream holds a chain of pages; the response of page k of n carries a  *)
(* Link header with a rel="next" part exactly when k < n.                  *)
(***************************************************************************)
\* the items of a page: (page, index)
PageItems(k, size) == [i \in 1..size |-> <<k, i>>]

\* the chains of pages the upstream can hold: page sizes 0..MaxPageSize
Books ==
    UNION {[1..n -> {PageItems(0, s) : s \in 0..MaxPageSize}] : n \in 1..MaxBookPages}

\* page k of a chain, its items numbered by the page
PageOf(bk, k) == PageItems(k, Len(bk[k]))

\* every item of the first n pages, in upstream order
RECURSIVE FirstPages(_, _)
FirstPages(bk, n) ==
    IF n = 0 THEN <<>> ELSE FirstPages(bk, n - 1) \o PageOf(bk, n)

\* the query parameters a caller passes: a set of (key, value) pairs
CallerParams == { {}, {<<"all", "false">>}, {<<"per_page", 50>>} }

\* params.setdefault("per_page", 100)
SetDefault(ps, key, value) ==
    IF \E p \in ps : p[1] = key THEN ps ELSE ps \cup {<<key, value>>}

\* the forms of the URL in a Link header: absolute, or relative to the API root
LinkKinds == {"http", "path"}

Url(kind, k) == [kind |-> kind, page |-> k]

\* the Link header of page k of n: <url>; rel="prev", <url>; rel="next", <url>; rel="last"
LinkHeader(kind, k, n) ==
    IF n = 1 THEN <<>>
    ELSE (IF k > 1 THEN <<[url |-> Url(kind, k - 1), rel |-> "prev"]>> ELSE <<>>)
         \o (IF k < n THEN <<[url |-> Url(kind, k + 1), rel |-> "next"]>> ELSE <<>>)
         \o <<[url |-> Url(kind, n), rel |-> "last"]>>

\* a parse that takes the URL of the first part, whatever its rel
ParseNextLinkAnyRel(link_header) ==
    IF link_header = <<>> THEN None ELSE Some(link_header[1].url)

\* GitHubClient._parse_next_link: the URL of the first part with rel="next"
ParseNextLink(link_header) ==
    LET nexts == SelectSeq(link_header, LAMBDA part : part.rel = "next")
    IN IF nexts = <<>> THEN None ELSE Some(nexts[1].url)

\* _get_page_with_link: client.get(path) for a full URL, client.get(path, params=params) otherwise
SentParams(url, ps) == IF url.kind = "http" THEN None ELSE ps

\* a loop that keeps the parameters for the later requests
ClearedParamsKept(ps) == ps

\* "Clear params for subsequent requests": current_params = None
ClearedParams(ps) == None

InitPaginate ==
    /\ gpc = "idle"
    /\ book = <<>>
    /\ linkKind = "http"
    /\ max_pages = None
    /\ params = {}
    /\ next_url = None
    /\ page_count = 0
    /\ current_params = None
    /\ buffer = <<>>
    /\ yielded = <<>>
    /\ pageRequests = <<>>
    /\ pageFailures = 0

\* get_paginated(path, params=params, max_pages=cap) up to the loop
GetPaginated(bk, kind, caller_params, cap) ==
    /\ gpc = "idle"
    /\ book' = bk
    /\ linkKind' = kind
    /\ max_pages' = cap
    /\ params' = SetDefault(caller_params, "per_page", 100)
    /\ current_params' = Some(SetDefault(caller_params, "per_page", 100))
    /\ next_url' = Some(Url("path", 1))
    /\ page_count' = 0
    /\ gpc' = "test"
    /\ UNCHANGED <<buffer, yielded, pageRequests, pageFailures>>

\* max_pages and page_count >= max_pages: None and 0 are both false
CapReached(cap, count) == IsSome(cap) /\ Get(cap) /= 0 /\ count >= Get(cap)

\* while next_url: if max_pages and page_count >= max_pages: break
PageLoopTest ==
    /\ gpc = "test"
    /\ gpc' = IF IsSome(next_url) /\ ~CapReached(max_pages, page_count)
              THEN "request" ELSE "done"
    /\ UNCHANGED <<book, linkKind, max_pages, params, next_url, page_count, current_params,
                   buffer, yielded, pageRequests, pageFailures>>

\* one HTTP request of _get_page_with_link fails with a transient error and is retried
PageRequestRetried ==
    /\ gpc = "request"
    /\ pageFailures < MaxPageFailures
    /\ pageFailures' = pageFailures + 1
    /\ pageRequests' = Append(pageRequests,
                              [url |-> Get(next_url),
                               params |-> SentParams(Get(next_url), current_params)])
    /\ UNCHANGED <<gpc, book, linkKind, max_pages, params, next_url, page_count, current_params,
                   buffer, yielded>>

\* the request succeeds: result, next_url = await self._get_page_with_link(...)
PageArrives ==
    /\ gpc = "request"
    /\ pageRequests' = Append(pageRequests,
                              [url |-> Get(next_url),
                               params |-> SentParams(Get(next_url), current_params)])
    /\ buffer' = PageOf(book, Get(next_url).page)
    /\ next_url' = ParseNextLink(LinkHeader(linkKind, Get(next_url).page, Len(book)))
    /\ gpc' = "yield"
    /\ UNCHANGED <<book, linkKind, max_pages, params, page_count, current_params, yielded,
                   pageFailures>>

\* for item in result: yield item -- the consumer takes the next item
YieldItem ==
    /\ gpc = "yield"
    /\ buffer /= <<>>
    /\ yielded' = Append(yielded, Head(buffer))
    /\ buffer' = Tail(buffer)
    /\ UNCHANGED <<gpc, book, linkKind, max_pages, params, next_url, page_count, current_params,
                   pageRequests, pageFailures>>

\* the page is exhausted: page_count += 1, current_params = None
PageDone ==
    /\ gpc = "yield"
    /\ buffer = <<>>
    /\ page_count' = page_count + 1
    /\ current_params' = ClearedParams(current_params)
    /\ gpc' = "test"
    /\ UNCHANGED <<book, linkKind, max_pages, params, next_url, buffer, yielded, pageRequests,
                   pageFailures>>

\* the caps a caller passes as max_pages
Caps == {None} \cup {Some(m) : m \in 0..MaxCap}

Paginate ==
    \E bk \in Books : \E kind \in LinkKinds : \E caller_params \in CallerParams :
        \E cap \in Caps : GetPaginated(bk, kind, caller_params, cap)

(***************************************************************************)
(* Schema migrations: state/migrations.py.  The registry MIGRATIONS and    *)
(* CURRENT_SCHEMA_VERSION are taken as the module holds them when it is    *)
(* loaded: any ceiling 1..MaxSchemaVersion, any registry below it.         *)
(***************************************************************************)
InitMigrate ==
    /\ mpc = "unloaded"
    /\ current_schema_version = 0
    /\ migrations = {}
    /\ schema_version = {}
    /\ target_version = 0
    /\ version = 0
    /\ applied = <<>>
    /\ versionBefore = 0
    /\ migrateResult = [kind |-> "none", value |-> 0]
    /\ migrateCalls = 0

\* the module is loaded: CURRENT_SCHEMA_VERSION and the keys of MIGRATIONS
LoadMigrations(ceiling, registry) ==
    /\ mpc = "unloaded"
    /\ current_schema_version' = ceiling
    /\ migrations' = registry
    /\ mpc' = "idle"
    /\ UNCHANGED <<schema_version, target_version, version, applied, versionBefore,
                   migrateResult, migrateCalls>>

\* get_schema_version: 0 without the table or without a row, MAX(version) otherwise
RECURSIVE MaxOf(_)
MaxOf(S) == IF S = {} THEN 0 ELSE LET x == CHOOSE y \in S : TRUE IN Max(x, MaxOf(S \ {x}))

GetSchemaVersion(rows) == MaxOf(rows)

\* a migration that does not record its version
ApplyMigrationUnrecorded(rows, v) == rows

\* a migration to version v: its schema objects are created IF NOT EXISTS and the
\* version is recorded, INSERT OR REPLACE INTO schema_version; then conn.commit()
ApplyMigration(rows, v) == rows \cup {v}

\* migrate_database(conn, target): the checks before the loop
MigrateDatabase(target) ==
    /\ mpc = "idle"
    /\ migrateCalls < MaxMigrateCalls
    /\ migrateCalls' = migrateCalls + 1
    /\ target_version' = target
    /\ versionBefore' = GetSchemaVersion(schema_version)
    /\ applied' = <<>>
    /\ IF target < 0 \/ target > current_schema_version
       THEN /\ migrateResult' = [kind |-> "raised", value |-> 0]
            /\ mpc' = "idle"
            /\ UNCHANGED version
       ELSE IF GetSchemaVersion(schema_version) >= target
            THEN /\ migrateResult' = [kind |-> "returned",
                                      value |-> GetSchemaVersion(schema_version)]
                 /\ mpc' = "idle"
                 /\ UNCHANGED version
            ELSE /\ migrateResult' = [kind |-> "none", value |-> 0]
                 /\ version' = GetSchemaVersion(schema_version) + 1
                 /\ mpc' = "loop"
    /\ UNCHANGED <<current_schema_version, migrations, schema_version>>

\* one turn of "for version in range(current_version + 1, target_version + 1)",
\* or the return after the last turn
MigrateStep ==
    /\ mpc = "loop"
    /\ IF version > target_version
       THEN /\ migrateResult' = [kind |-> "returned", value |-> target_version]
            /\ mpc' = "idle"
            /\ UNCHANGED <<schema_version, version, applied>>
       ELSE IF version \notin migrations
            THEN /\ migrateResult' = [kind |-> "raised", value |-> version]
                 /\ mpc' = "idle"
                 /\ UNCHANGED <<schema_version, version, applied>>
            ELSE /\ schema_version' = ApplyMigration(schema_version, version)
                 /\ applied' = Append(applied, version)
                 /\ version' = version + 1
                 /\ UNCHANGED <<mpc, migrateResult>>
    /\ UNCHANGED <<current_schema_version, migrations, target_version, versionBefore,
                   migrateCalls>>

Load ==
    \E ceiling \in 1..MaxSchemaVersion : \E registry \in SUBSET (1..ceiling) :
        LoadMigrations(ceiling, registry)

\* target_version=None is CURRENT_SCHEMA_VERSION
Migrate == \E target \in (0 - 1)..(current_schema_version + 1) : MigrateDatabase(target)

\* the store is used between two migrate_database calls, once its tables exist
StoreUsed ==
    /\ mpc = "idle"
    /\ GetSchemaVersion(schema_version) >= 1
    /\ \E fault \in {FALSE} :
          \/ StoreMarkProcessed(NotificationList[1].id, "no_match", fault)
          \/ StoreWriteAuditEntry("no_match", NotificationList[1].id, fault)

(***************************************************************************)
(* The entity cache: EntityCache inside GitHubClient, get_issue and        *)
(* get_pull_request.  The upstream data does not change.                   *)
(***************************************************************************)
\* f"{owner}/{repo}#{number}"
EntityKeys == {EntityA, EntityB}

\* what GET /repos/{owner}/{repo}/issues/{n} and .../pulls/{n} answer
IssuePayload(key) == [resource |-> "issue", key |-> key]

PullPayload(key) == [resource |-> "pull", key |-> key]

\* EntityCache(): self._cache = {}
NewEntityCache == [key \in EntityKeys |-> None]

NoLookup == [op |-> "none", key |-> <<>>, use_cache |-> FALSE, ret |-> <<>>, fetched |-> FALSE]

InitCache ==
    /\ entity_cache = NewEntityCache
    /\ cacheCycles = 0
    /\ cycleLookups = {}
    /\ lastLookup = NoLookup
    /\ lookups = 0

\* a cycle that runs on the client of the cycle before it
CycleClientReused ==
    /\ cacheCycles < MaxCacheCycles
    /\ cacheCycles' = cacheCycles + 1
    /\ cycleLookups' = {}
    /\ UNCHANGED <<entity_cache, lastLookup, lookups>>

\* a poll cycle starts: async with GitHubClient() as client -- a client of its own
CycleClient ==
    /\ cacheCycles < MaxCacheCycles
    /\ cacheCycles' = cacheCycles + 1
    /\ entity_cache' = NewEntityCache
    /\ cycleLookups' = {}
    /\ UNCHANGED <<lastLookup, lookups>>

\* get_issue / get_pull_request: the cache first, then the API, then put
GetEntity(op, fresh, key, use_cache) ==
    /\ cacheCycles > 0
    /\ lookups < MaxLookups
    /\ lookups' = lookups + 1
    /\ IF use_cache /\ IsSome(entity_cache[key])
       THEN /\ lastLookup' = [op |-> op, key |-> key, use_cache |-> use_cache,
                              ret |-> Get(entity_cache[key]), fetched |-> FALSE]
            /\ UNCHANGED entity_cache
       ELSE /\ lastLookup' = [op |-> op, key |-> key, use_cache |-> use_cache,
                              ret |-> fresh, fetched |-> TRUE]
            /\ entity_cache' = IF use_cache
                               THEN [entity_cache EXCEPT ![key] = Some(fresh)]
                               ELSE entity_cache
    /\ cycleLookups' = IF use_cache THEN cycleLookups \cup {key} ELSE cycleLookups
    /\ UNCHANGED cacheCycles

GetIssue ==
    \E key \in EntityKeys : \E use_cache \in BOOLEAN :
        GetEntity("get_issue", IssuePayload(key), key, use_cache)

GetPullRequest ==
    \E key \in EntityKeys : \E use_cache \in BOOLEAN :
        GetEntity("get_pull_request", PullPayload(key), key, use_cache)

\* ---------------------------------------------------------------------------
\* The notification channels: SlackAction and GitHubCommentAction
\* ---------------------------------------------------------------------------

\* SlackAction.RETRY_DELAYS
SLACK_RETRY_DELAYS == <<1, 2, 4>>

\* GitHubCommentAction.RETRY_DELAYS
COMMENT_RETRY_DELAYS == <<2, 5>>

Channels == {"slack", "github_comment"}

MaxRetriesOf(ch) == IF ch = "slack" THEN SLACK_MAX_RETRIES ELSE COMMENT_MAX_RETRIES

RetryDelaysOf(ch) == IF ch = "slack" THEN SLACK_RETRY_DELAYS ELSE COMMENT_RETRY_DELAYS

\* the status a channel takes for success
SuccessStatus(ch) == IF ch = "slack" THEN 200 ELSE 201

\* the statuses after which a channel gives up at once
NonRetryableNone(ch) == {}

NonRetryable(ch) == IF ch = "slack" THEN {400, 403, 404} ELSE {401, 403, 404, 422}

\* what a POST can meet: a response with a status, httpx.TimeoutException, httpx.RequestError
Status(code) == [kind |-> "status", code |-> code]

PostOutcomes ==
    {Status(code) : code \in {200, 201, 400, 404, 422, 500}}
        \cup {[kind |-> "timeout", code |-> 0], [kind |-> "request_error", code |-> 0]}

IsSuccess(ch, o) == o.kind = "status" /\ o.code = SuccessStatus(ch)

IsNonRetryable(ch, o) == o.kind = "status" /\ o.code \in NonRetryable(ch)

\* the values action.opt_in can hold: True, False, None, and a truthy value that is not True
OptIns == {"True", "False", "None", "1"}

ValidateOptInTruthy(opt_in) == opt_in \in {"True", "1"}

\* validate_opt_in passes: opt_in is True
ValidateOptIn(opt_in) == opt_in = "True"

\* the readings time.monotonic() can have when the process starts: the clock counts from an
\* unspecified point, the boot of the machine on the usual platforms
ClockStarts == {100, 4000}

\* how far the clock moves between two actions, seconds
ClockSteps == {1800, 3600}

\* IssueRateLimiter(): no comment recorded
NewIssueRateLimiter == [key \in EntityKeys |-> None]

\* self._last_comment.get(issue_key, 0.0)
LastOf(limiter, issue_key) ==
    IF IsSome(limiter[issue_key]) THEN Get(limiter[issue_key]) ELSE 0

\* IssueRateLimiter.can_comment
CanComment(limiter, t, issue_key) == ~(t - LastOf(limiter, issue_key) < RATE_LIMIT_WINDOW)

\* IssueRateLimiter.record_comment
RecordComment(limiter, t, issue_key) == [limiter EXCEPT ![issue_key] = Some(t)]

\* IssueRateLimiter.clear
ClearLimiter(limiter, issue_key) ==
    IF IsSome(issue_key) THEN [limiter EXCEPT ![Get(issue_key)] = None]
    ELSE NewIssueRateLimiter

\* SlackResult and GitHubCommentResult
SendResult(success, status_code, attempts) ==
    [kind |-> "result", success |-> success, status_code |-> status_code, attempts |-> attempts]

NoCall == [channel |-> "none", opt_in |-> "None", key |-> None, limiter |-> NewIssueRateLimiter]

InitNotify ==
    /\ npc = "idle"
    /\ channel = "none"
    /\ sendAttempt = 0
    /\ postLog = <<>>
    /\ sleeps = <<>>
    /\ sendResult = None
    /\ lastCall = NoCall
    /\ sendCalls = 0
    /\ monotonic \in ClockStarts
    /\ last_comment = NewIssueRateLimiter
    /\ commentLog = <<>>

\* _poll_cycle builds the ActionExecutor of the cycle, which builds its GitHubCommentAction,
\* which builds its IssueRateLimiter
NewExecutor ==
    /\ npc = "idle"
    /\ sendCalls > 0
    /\ last_comment /= NewIssueRateLimiter \/ lastCall /= NoCall
    /\ last_comment' = NewIssueRateLimiter
    /\ lastCall' = NoCall
    /\ UNCHANGED <<npc, channel, sendAttempt, postLog, sleeps, sendResult, sendCalls,
                   monotonic, commentLog>>

\* time passes between two actions
ClockAdvances ==
    \E d \in ClockSteps :
        /\ npc = "idle"
        /\ monotonic + d <= MaxMonotonic
        /\ monotonic' = monotonic + d
        /\ UNCHANGED <<npc, channel, sendAttempt, postLog, sleeps, sendResult, lastCall,
                       sendCalls, last_comment, commentLog>>

\* execute returns without sending
Blocked(ch, opt_in, key) ==
    /\ npc' = "idle"
    /\ sendResult' = Some(SendResult(FALSE, None, 0))
    /\ UNCHANGED <<monotonic, last_comment, commentLog>>

\* execute goes on to _send_with_retries
Sending(ch, opt_in, key) ==
    /\ npc' = "post"
    /\ sendResult' = None
    /\ UNCHANGED <<monotonic, last_comment, commentLog>>

CallBegins(ch, opt_in, key) ==
    /\ npc = "idle"
    /\ sendCalls < MaxSendCalls
    /\ sendCalls' = sendCalls + 1
    /\ channel' = ch
    /\ sendAttempt' = 0
    /\ postLog' = <<>>
    /\ sleeps' = <<>>
    /\ lastCall' = [channel |-> ch, opt_in |-> opt_in, key |-> key, limiter |-> last_comment]

\* GitHubCommentAction.execute, up to the call of _send_with_retries; key is None for an
\* event without an entity number
ExecuteComment(opt_in, key) ==
    /\ CallBegins("github_comment", opt_in, key)
    /\ IF ~ValidateOptIn(opt_in) THEN Blocked("github_comment", opt_in, key)
       ELSE IF ~IsSome(key) THEN Blocked("github_comment", opt_in, key)
       ELSE IF ~CanComment(last_comment, monotonic, Get(key))
            THEN Blocked("github_comment", opt_in, key)
       ELSE Sending("github_comment", opt_in, key)

\* SlackAction.execute, up to the call of _send_with_retries; acquired is what
\* self._rate_limiter.acquire() returned
ExecuteSlack(acquired) ==
    /\ CallBegins("slack", "None", None)
    /\ IF ~acquired THEN Blocked("slack", "None", None)
       ELSE Sending("slack", "None", None)

\* _send_with_retries returns res; GitHubCommentAction.execute records a comment that was posted
SendReturns(res) ==
    /\ npc' = "idle"
    /\ sendResult' = Some(res)
    /\ UNCHANGED <<sendAttempt, sleeps, monotonic>>
    /\ IF channel = "github_comment" /\ res.success
       THEN /\ last_comment' = RecordComment(last_comment, monotonic, Get(lastCall.key))
            /\ commentLog' = Append(commentLog, [key |-> Get(lastCall.key), at |-> monotonic])
       ELSE UNCHANGED <<last_comment, commentLog>>

\* one pass of the loop of _send_with_retries up to its sleep: the POST meets o
Post(o) ==
    /\ npc = "post"
    /\ postLog' = Append(postLog, o)
    /\ UNCHANGED <<channel, lastCall, sendCalls>>
    /\ LET last_status == IF o.kind = "status" THEN Some(o.code) ELSE None
       IN  IF IsSuccess(channel, o)
           THEN SendReturns(SendResult(TRUE, last_status, sendAttempt + 1))
           ELSE IF IsNonRetryable(channel, o) \/ ~(sendAttempt < MaxRetriesOf(channel) - 1)
           THEN SendReturns(SendResult(FALSE, last_status, MaxRetriesOf(channel)))
           ELSE /\ npc' = "sleep"
                /\ UNCHANGED <<sendAttempt, sleeps, sendResult, monotonic, last_comment,
                               commentLog>>

\* time.sleep(delay) of _send_with_retries, and the loop goes round
SendSleep ==
    /\ npc = "sleep"
    /\ LET delay == RetryDelaysOf(channel)[sendAttempt + 1]
       IN  /\ sleeps' = Append(sleeps, delay)
           /\ monotonic' = monotonic + delay
    /\ sendAttempt' = sendAttempt + 1
    /\ npc' = "post"
    /\ UNCHANGED <<channel, postLog, sendResult, lastCall, sendCalls, last_comment, commentLog>>

\* IssueRateLimiter.clear, called on the limiter directly
ClearCall(issue_key) ==
    /\ npc = "idle"
    /\ last_comment /= ClearLimiter(last_comment, issue_key)
    /\ last_comment' = ClearLimiter(last_comment, issue_key)
    /\ UNCHANGED <<npc, channel, sendAttempt, postLog, sleeps, sendResult, lastCall, sendCalls,
                   monotonic, commentLog>>

CommentAction ==
    \E opt_in \in OptIns : \E key \in {None} \cup {Some(k) : k \in EntityKeys} :
        ExecuteComment(opt_in, key)

SlackActionCall == \E acquired \in BOOLEAN : ExecuteSlack(acquired)

PostMeets == \E o \in PostOutcomes : Post(o)

Clear == \E issue_key \in {None} \cup {Some(k) : k \in EntityKeys} : ClearCall(issue_key)

\* ---------------------------------------------------------------------------
\* The store called with identifiers of any form: an id is a string that may hold ":"
\* ---------------------------------------------------------------------------
StalePr == RuleList[1].id

\* entity ids and thresholds, two of them holding ":" (a threshold such as "since:...")
KeyEntities == {<<"a">>, <<"a", ":">> \o StalePr \o <<":", "x">>}

KeyThresholds == {<<"48h">>, <<"x", ":">> \o StalePr \o <<":", "48h">>}

KeyTriples == {<<e, StalePr, t>> : e \in KeyEntities, t \in KeyThresholds}

\* event ids: a notification id, and an id that reads "threshold:a:stale_pr:48h"
KeyEventIds == {NotificationList[1].id, <<"threshold", ":", "a", ":">> \o StalePr \o <<":", "48h">>}

KeysRecordAction ==
    \E id \in KeyEventIds : \E res \in StoreResults : StoreRecordAction(id, StalePr, res, FALSE)

KeysRecordThresholdFired ==
    \E k \in KeyTriples : StoreRecordThresholdFired(k, "success", FALSE)

KeysClearThresholdFired ==
    \E k \in KeyTriples : StoreClearThresholdFired(k, FALSE)

\* the machines beside the client, the store and the poll cycle, before they start
InitAux == InitDaemon /\ InitPaginate /\ InitMigrate /\ InitCache /\ InitNotify

Init == InitClient /\ InitCheckpoint /\ InitStore /\ InitApi /\ InitPoll(BOOLEAN) /\ InitAux

\* the client and the checkpoint object alone: no poll cycle runs
InitLibrary ==
    InitClient /\ InitCheckpoint /\ InitStore /\ InitApi /\ InitPoll({FALSE}) /\ InitAux

NextClient ==
    \/ ClientStart /\ UNCHANGED <<checkpointVars, storeVars, apiVars, pollVars, auxVars>>
    \/ ClientRequest /\ UNCHANGED <<checkpointVars, storeVars, apiVars, pollVars, auxVars>>
    \/ ClientNetworkError /\ UNCHANGED <<checkpointVars, storeVars, apiVars, pollVars, auxVars>>

SpecClient == InitLibrary /\ [][NextClient]_vars

NextCheckpoint == CheckpointUpdate /\ UNCHANGED <<clientVars, storeVars, apiVars, pollVars, auxVars>>

SpecCheckpoint == InitLibrary /\ [][NextCheckpoint]_vars

NextStore ==
    \/ Tick /\ UNCHANGED <<clientVars, checkpointVars, pollVars, auxVars>>
    \/ ApiMarkProcessed /\ UNCHANGED <<clientVars, checkpointVars, pollVars, auxVars>>
    \/ ApiCleanupExpired /\ UNCHANGED <<clientVars, checkpointVars, pollVars, auxVars>>
    \/ ApiRecordAction /\ UNCHANGED <<clientVars, checkpointVars, pollVars, auxVars>>
    \/ ApiRecordThresholdFired /\ UNCHANGED <<clientVars, checkpointVars, pollVars, auxVars>>
    \/ ApiClearThresholdFired /\ UNCHANGED <<clientVars, checkpointVars, pollVars, auxVars>>
    \/ ApiStoreSaveCheckpoint /\ UNCHANGED <<clientVars, checkpointVars, pollVars, auxVars>>
    \/ ApiWriteAuditEntry /\ UNCHANGED <<clientVars, checkpointVars, pollVars, auxVars>>
    \/ ApiQueryAuditLog /\ UNCHANGED <<clientVars, checkpointVars, pollVars, auxVars>>

SpecStore == InitLibrary /\ [][NextStore]_vars

\* what every step of the daemon leaves alone
LibraryUnchanged ==
    UNCHANGED <<clientVars, checkpointVars, storeVars, apiVars, pollVars, pageVars,
                migrateVars, cacheVars, notifyVars>>

NextDaemon ==
    \/ Signal /\ LibraryUnchanged
    \/ Start /\ LibraryUnchanged
    \/ LoopTest /\ LibraryUnchanged
    \/ ClientWait /\ LibraryUnchanged
    \/ SleepSecond /\ LibraryUnchanged
    \/ ClientWaitEnds /\ LibraryUnchanged
    \/ CycleReturns /\ LibraryUnchanged
    \/ CycleRaises /\ LibraryUnchanged
    \/ EndOfCycle /\ LibraryUnchanged
    \/ SleepTest /\ LibraryUnchanged
    \/ DaemonFinally /\ LibraryUnchanged

SpecDaemon == InitLibrary /\ [][NextDaemon]_vars

\* what every step of get_paginated leaves alone
PaginateUnchanged ==
    UNCHANGED <<clientVars, checkpointVars, storeVars, apiVars, pollVars, daemonVars,
                migrateVars, cacheVars, notifyVars>>

NextPaginate ==
    \/ Paginate /\ PaginateUnchanged
    \/ PageLoopTest /\ PaginateUnchanged
    \/ PageRequestRetried /\ PaginateUnchanged
    \/ PageArrives /\ PaginateUnchanged
    \/ YieldItem /\ PaginateUnchanged
    \/ PageDone /\ PaginateUnchanged

SpecPaginate == InitLibrary /\ [][NextPaginate]_vars

NextMigrate ==
    \/ Load /\ UNCHANGED <<clientVars, checkpointVars, storeVars, apiVars, pollVars,
                           daemonVars, pageVars, cacheVars, notifyVars>>
    \/ Migrate /\ UNCHANGED <<clientVars, checkpointVars, storeVars, apiVars, pollVars,
                              daemonVars, pageVars, cacheVars, notifyVars>>
    \/ MigrateStep /\ UNCHANGED <<clientVars, checkpointVars, storeVars, apiVars, pollVars,
                                  daemonVars, pageVars, cacheVars, notifyVars>>
    \/ StoreUsed /\ UNCHANGED <<clientVars, checkpointVars, pollVars, daemonVars, pageVars,
                                migrateVars, cacheVars, notifyVars>>

SpecMigrate == InitLibrary /\ [][NextMigrate]_vars

\* what every step of the entity cache leaves alone
CacheUnchanged ==
    UNCHANGED <<clientVars, checkpointVars, storeVars, apiVars, pollVars, daemonVars,
                pageVars, migrateVars, notifyVars>>

NextCache ==
    \/ CycleClient /\ CacheUnchanged
    \/ GetIssue /\ CacheUnchanged
    \/ GetPullRequest /\ CacheUnchanged

SpecCache == InitLibrary /\ [][NextCache]_vars

\* what every step of a notification channel leaves alone
NotifyUnchanged ==
    UNCHANGED <<clientVars, checkpointVars, storeVars, apiVars, pollVars, daemonVars,
                pageVars, migrateVars, cacheVars>>

NextNotify ==
    \/ NewExecutor /\ NotifyUnchanged
    \/ ClockAdvances /\ NotifyUnchanged
    \/ CommentAction /\ NotifyUnchanged
    \/ SlackActionCall /\ NotifyUnchanged
    \/ PostMeets /\ NotifyUnchanged
    \/ SendSleep /\ NotifyUnchanged

SpecNotify == InitLibrary /\ [][NextNotify]_vars

\* the limiter used directly as well: clear is called on it
NextLimiter ==
    \/ NewExecutor /\ NotifyUnchanged
    \/ ClockAdvances /\ NotifyUnchanged
    \/ CommentAction /\ NotifyUnchanged
    \/ SlackActionCall /\ NotifyUnchanged
    \/ PostMeets /\ NotifyUnchanged
    \/ SendSleep /\ NotifyUnchanged
    \/ Clear /\ NotifyUnchanged

SpecLimiter == InitLibrary /\ [][NextLimiter]_vars

NextKeys ==
    \/ KeysRecordAction /\ UNCHANGED <<clientVars, checkpointVars, pollVars, auxVars>>
    \/ KeysRecordThresholdFired /\ UNCHANGED <<clientVars, checkpointVars, pollVars, auxVars>>
    \/ KeysClearThresholdFired /\ UNCHANGED <<clientVars, checkpointVars, pollVars, auxVars>>

SpecKeys == InitLibrary /\ [][NextKeys]_vars

\* the daemon keeps running: no step of it that can be taken is put off for ever
FairSpecDaemon == SpecDaemon /\ WF_vars(DaemonStep /\ LibraryUnchanged)

ApiSaveCheckpoint ==
    \E t \in OptTimestamps : SaveCheckpoint(Checkpoint("main", t, None))

Arrival == \E n \in Notifications : NotificationArrives(n)

Execute == \E status \in ActionStatuses : ExecuteMatch(status)

Next ==
    \/ Arrival /\ UNCHANGED <<clientVars, checkpointVars, apiVars, auxVars>>
    \/ ApiSaveCheckpoint /\ UNCHANGED <<clientVars, checkpointVars, apiVars, auxVars>>
    \/ StartCycle /\ UNCHANGED <<clientVars, checkpointVars, apiVars, auxVars>>
    \/ NextNotification /\ UNCHANGED <<clientVars, checkpointVars, apiVars, auxVars>>
    \/ Execute /\ UNCHANGED <<clientVars, checkpointVars, apiVars, auxVars>>
    \/ RecordResult /\ UNCHANGED <<clientVars, checkpointVars, apiVars, auxVars>>
    \/ MarkProcessed /\ UNCHANGED <<clientVars, checkpointVars, apiVars, auxVars>>
    \/ WriteAuditEntry /\ UNCHANGED <<clientVars, checkpointVars, apiVars, auxVars>>
    \/ EndCycle /\ UNCHANGED <<clientVars, checkpointVars, apiVars, auxVars>>
    \/ FetchFails /\ UNCHANGED <<clientVars, checkpointVars, apiVars, auxVars>>
    \/ Crash /\ UNCHANGED <<clientVars, checkpointVars, apiVars, auxVars>>

Spec == Init /\ [][Next]_vars

\* the same program in runs where the process is never killed
NextNoCrash ==
    \/ Arrival /\ UNCHANGED <<clientVars, checkpointVars, apiVars, auxVars>>
    \/ ApiSaveCheckpoint /\ UNCHANGED <<clientVars, checkpointVars, apiVars, auxVars>>
    \/ StartCycle /\ UNCHANGED <<clientVars, checkpointVars, apiVars, auxVars>>
    \/ NextNotification /\ UNCHANGED <<clientVars, checkpointVars, apiVars, auxVars>>
    \/ Execute /\ UNCHANGED <<clientVars, checkpointVars, apiVars, auxVars>>
    \/ RecordResult /\ UNCHANGED <<clientVars, checkpointVars, apiVars, auxVars>>
    \/ MarkProcessed /\ UNCHANGED <<clientVars, checkpointVars, apiVars, auxVars>>
    \/ WriteAuditEntry /\ UNCHANGED <<clientVars, checkpointVars, apiVars, auxVars>>
    \/ EndCycle /\ UNCHANGED <<clientVars, checkpointVars, apiVars, auxVars>>
    \/ FetchFails /\ UNCHANGED <<clientVars, checkpointVars, apiVars, auxVars>>

SpecNoCrash == Init /\ [][NextNoCrash]_vars

(***************************************************************************)
(* Properties of the poll cycle and the store.                             *)
(***************************************************************************)
\* C1: an action is attempted at most once for an (event_id, rule_id) pair,
\* over any sequence of poll cycles, a crash and restart inside a cycle
\* included: no pair has two executions.
C1_AtMostOncePerPair ==
    \A x \in executions : \A y \in executions :
        (x.event = y.event /\ x.rule = y.rule) => x = y

\* the stored last_event_timestamp of checkpoint "main"
StoredEventTs(rows) ==
    IF IsSome(rows["main"]) THEN Get(rows["main"]).last_event_timestamp ELSE None

\* C3: the persisted checkpoint never regresses: no step, a saveCheckpoint
\* with an older last_event_timestamp included, lowers or erases the stored
\* last_event_timestamp.
C3_CheckpointNeverRegresses ==
    [][IsSome(StoredEventTs(checkpoints)) =>
          /\ IsSome(StoredEventTs(checkpoints'))
          /\ Get(StoredEventTs(checkpoints')) >= Get(StoredEventTs(checkpoints))]_vars

\* C5: once a time-based rule R has fired for an entity E, the poll loop
\* does not fire R for E again on a later poll when a different event on E
\* arrives (no clearThresholdFired is ever called by the loop).
C5_ThresholdFiresOnce ==
    \A x \in executions : \A y \in executions :
        (/\ IsThresholdRule(RuleOf(x.rule))
         /\ x.rule = y.rule
         /\ x.entity = y.entity
         /\ x.event /= y.event) => x.cycle = y.cycle

(***************************************************************************)
(* Properties of Checkpoint.update.                                        *)
(***************************************************************************)
\* the latest of the timestamps of a sequence of arguments, None when all are None
MaxTimestamp(inputs) ==
    LET given == {Get(inputs[i]) : i \in {k \in 1..Len(inputs) : IsSome(inputs[k])}}
    IN IF given = {} THEN None
       ELSE Some(CHOOSE m \in given : \A t \in given : m >= t)

\* C4: after any chain of update(event_timestamp=t_i) calls from an empty
\* checkpoint, last_event_timestamp is the maximum of the non-None t_i (None
\* when all are None), and an update with a timestamp not later than the
\* current one leaves last_event_timestamp unchanged.
C4_UpdateIsMaximum ==
    /\ [](ck.last_event_timestamp = MaxTimestamp(ckInputs))
    /\ [][(/\ Len(ckInputs') = Len(ckInputs) + 1
           /\ IsSome(ck.last_event_timestamp)
           /\ IsSome(ckInputs'[Len(ckInputs')])
           /\ Get(ckInputs'[Len(ckInputs')]) <= Get(ck.last_event_timestamp))
          => ck'.last_event_timestamp = ck.last_event_timestamp]_vars

\* a full chain whose last update, with the oldest timestamp, was dropped
C4_Witness ==
    /\ Len(ckInputs) = MaxUpdates
    /\ ckInputs[1] = None
    /\ ckInputs[2] = Some(MaxTime)
    /\ ckInputs[MaxUpdates] = Some(1)
    /\ ck.last_event_timestamp = Some(MaxTime)

(***************************************************************************)
(* Properties of the client's retry loop.                                  *)
(***************************************************************************)
Done == cpc \in {"returned", "raised"}

\* C2: the k-th consecutive secondary-limit hit (k = 1..4) is followed by a
\* wait of 1, 2, 4, 8 minutes; after a successful response the count starts
\* again, so the next hit waits 1 minute.
C2_SecondaryLadder ==
    (/\ lastCond.type = "RateLimitError"
     /\ lastCond.is_secondary
     /\ consecSecondary \in 1..Len(SECONDARY_BACKOFF_MULTIPLIERS))
    => /\ lastWait.kind = "secondary"
       /\ lastWait.secs = SECONDARY_BACKOFF_MULTIPLIERS[consecSecondary] * 60

\* C6: for every sequence of responses and network failures a logical call
\* (get or a page fetch) issues at most MAX_RETRIES HTTP requests, and it
\* terminates by returning or raising: while the call is inside the loop a
\* further attempt is always possible and fewer than MAX_RETRIES have been
\* made, and every step of the loop either ends the call or uses up one more
\* of the MAX_RETRIES attempts.
C6_BoundedAttempts ==
    /\ [](requests <= MAX_RETRIES)
    /\ [](cpc = "try" => attempt < MAX_RETRIES /\ requests = attempt /\ ENABLED NextClient)
    /\ [][cpc = "try" => (Done' \/ (cpc' = "try" /\ attempt' = attempt + 1))]_vars

\* a page fetch that used every attempt and ended
C6_Witness ==
    /\ callKind = "page"
    /\ requests = MAX_RETRIES
    /\ cpc = "raised"
    /\ lastCond.type = "RequestError"

Retryable(cond) == cond.type \in {"RateLimitError", "TransientError", "RequestError"}

\* the failure carries the condition: it is the condition, or wraps it
Carries(err, cond) ==
    \/ err = cond
    \/ err.type = "GitHubAPIError" /\ err.cause = cond.type

\* C7: a call whose attempts all ended in a rate-limit or transient condition
\* raises a failure carrying the last condition, and a call returns a normal
\* result only if one of its attempts received a success or 304 response.
C7_ExhaustionReported ==
    /\ cpc = "returned" => sawSuccess
    /\ (Done /\ requests = MAX_RETRIES /\ Retryable(lastCond))
       => (cpc = "raised" /\ outcome.kind = "raised" /\ Carries(outcome.error, lastCond))

\* four transient failures: the call raised an API error wrapping the last one
C7_Witness ==
    /\ cpc = "raised"
    /\ requests = MAX_RETRIES
    /\ lastCond.type = "TransientError"
    /\ outcome.error.type = "GitHubAPIError"
    /\ outcome.error.cause = "TransientError"

\* C8: a 5th consecutive secondary-limit hit (no successful response in
\* between) is fatal: the RateLimit error reaches the caller with no further
\* backoff wait and no further request.
C8_FifthHitFatal ==
    (/\ lastCond.type = "RateLimitError"
     /\ lastCond.is_secondary
     /\ consecSecondary > Len(SECONDARY_BACKOFF_MULTIPLIERS))
    => /\ cpc = "raised"
       /\ outcome.error = lastCond
       /\ lastWait = NoWait

\* the rate-limit signal of a response: the quota is used up, or the body
\* speaks of a rate limit or of abuse detection
RateLimitSignal(resp) ==
    \/ resp.remaining = 0
    \/ Contains(Lower(resp.message), <<"rate", "limit">>)
    \/ Contains(Lower(resp.message), <<"abuse">>)

\* C9: a 403 or 429 response with a rate-limit signal is a RateLimit
\* condition resolved by wait-and-retry (until reset + jitter, or the ladder
\* wait) while attempts remain; it is not fatal on first occurrence.
C9_RateLimitIsRetried ==
    (/\ lastResp.status_code \in {403, 429}
     /\ RateLimitSignal(lastResp)
     /\ requests < MAX_RETRIES
     /\ consecSecondary <= Len(SECONDARY_BACKOFF_MULTIPLIERS))
    => /\ cpc = "try"
       /\ lastCond.type = "RateLimitError"
       /\ \/ /\ lastWait.kind = "primary"
             /\ \E j \in Jitters : lastWait.secs = Max(0, lastResp.reset_after + j)
          \/ /\ lastWait.kind = "secondary"
             /\ \E k \in 1..Len(SECONDARY_BACKOFF_MULTIPLIERS) :
                    lastWait.secs = SECONDARY_BACKOFF_MULTIPLIERS[k] * 60

\* the error body signals the secondary / abuse-detection limit
MentionsSecondary(resp) ==
    \/ Contains(Lower(resp.message), <<"secondary", "rate", "limit">>)
    \/ Contains(Lower(resp.message), <<"abuse">>)

\* C10: a rate-limited 403 whose body signals the secondary limit is
\* classified as secondary and gets the ladder backoff; a primary-quota
\* response (remaining = 0) is classified as primary and waits until reset.
C10_ClassifiedByContent ==
    lastResp.status_code = 403 =>
        /\ (MentionsSecondary(lastResp) /\ lastResp.remaining /= 0)
           => (lastCond = RateLimitError(TRUE) /\ lastWait.kind = "secondary")
        /\ (lastResp.remaining = 0 /\ ~MentionsSecondary(lastResp))
           => (lastCond = RateLimitError(FALSE) /\ lastWait.kind = "primary")

\* a 4xx response that is fatal: a 401, or one with no rate-limit signal
FatalResponse(resp) ==
    /\ resp.status_code \in 400..499
    /\ resp.status_code = 401 \/ ~RateLimitSignal(resp)

\* C11: an attempt that receives a 401, or another 4xx with no rate-limit
\* signal, ends the call by raising an API error, with no backoff wait; and
\* a call that has ended issues no further request and sleeps no more.
C11_FatalNotRetried ==
    /\ [](FatalResponse(lastResp)
            => /\ cpc = "raised"
               /\ outcome = Raised(GitHubAPIError(lastResp.status_code, "none"))
               /\ lastWait = NoWait)
    /\ [][(Done /\ calls' = calls)
            => (requests' = requests /\ waitCount' = waitCount)]_vars

\* a 404 on the second attempt, after one retried failure, ended the call
C11_Witness ==
    /\ lastResp.status_code = 404
    /\ requests = 2
    /\ waitCount = 1
    /\ cpc = "raised"

\* C12: before every HTTP attempt the client consults its latest snapshot:
\* with remaining < RATE_LIMIT_THRESHOLD it sleeps at least
\* seconds_until_reset, plus a jitter below RATE_LIMIT_JITTER_MAX; with
\* remaining >= RATE_LIMIT_THRESHOLD, or no snapshot yet, it does not sleep.
C12_ProactivePause ==
    [][requests' = requests + 1 =>
        IF IsSome(rate_limit) /\ Get(rate_limit).remaining < RATE_LIMIT_THRESHOLD
        THEN /\ proactiveWait' >= SecondsUntilReset(Get(rate_limit))
             /\ proactiveWait' < SecondsUntilReset(Get(rate_limit)) + RATE_LIMIT_JITTER_MAX
             /\ proactiveWait' >= SecondsUntilReset(Get(rate_limit)) + RATE_LIMIT_JITTER_MIN
        ELSE proactiveWait' = 0]_vars

\* a call that starts after a response with remaining 50 and a reset 30 s
\* away paused 39 s before its first request
C12_Witness ==
    /\ requests = 1
    /\ calls = 2
    /\ proactiveWait = 39
    /\ lastResp.status_code = 200

\* the documented transient ladder, by 0-based attempt index
TransientLadder == <<60, 120, 240, 480>>

OpStep(name) == storeOps' = storeOps + 1 /\ lastOp'.name = name /\ ~lastOp'.raised

\* is_processed, has_action_executed and has_threshold_fired asked of a table
ProcessedIn(rows, id) == \E row \in rows : row.event_id = id

ExecutedIn(rows, e, r) == \E row \in rows : row.event_id = e /\ row.rule_id = r

FiredIn(rows, k) == ExecutedIn(rows, MakeThresholdKey(k[1], k[2], k[3]), k[2])

\* the rows of a table that do not belong to the pair (e, r)
OtherPairs(rows, e, r) == {row \in rows : ~(row.event_id = e /\ row.rule_id = r)}

\* C14: record_action is an upsert on (event_id, rule_id): the table never
\* holds two rows of a pair; after a call the row of the pair holds the
\* values of that call, has_action_executed is true for it, and the rows of
\* other pairs are unchanged; has_action_executed of an event stays true.
C14_RecordActionUpsert ==
    /\ [](\A x \in action_history : \A y \in action_history :
            (x.event_id = y.event_id /\ x.rule_id = y.rule_id) => x = y)
    /\ [][OpStep("record_action") =>
            /\ ExecutedIn(action_history', lastOp'.key[1], lastOp'.key[2])
            /\ [event_id |-> lastOp'.key[1], rule_id |-> lastOp'.key[2],
                action_type |-> lastOp'.args[1], result |-> lastOp'.args[2]]
                    \in action_history'
            /\ OtherPairs(action_history', lastOp'.key[1], lastOp'.key[2])
                 = OtherPairs(action_history, lastOp'.key[1], lastOp'.key[2])]_vars
    /\ [][\A e \in StoreEventIds : \A r \in RuleIds :
            ExecutedIn(action_history, e, r) => ExecutedIn(action_history', e, r)]_vars

\* the pair (notif_1, stale_pr) recorded again with another result, beside
\* the row of another pair: still one row for each
C14_Witness ==
    /\ storeOps = 3
    /\ lastOp.name = "record_action"
    /\ ~lastOp.raised
    /\ lastOp.args[2] = "failed"
    /\ Cardinality(action_history) = 2
    /\ \A row \in action_history : row.event_id = NotificationList[1].id
    /\ \E row \in action_history : row.result = "success"

\* C15: is_processed(id) is false before any mark_processed(id), true right
\* after it whatever the disposition, stays true until a cleanup_expired
\* removes the row, and mark_processed(id) leaves is_processed of every
\* other id as it was.
C15_IsProcessed ==
    /\ [](storeOps = 0 => \A id \in StoreEventIds : ~IsProcessed(id))
    /\ [][OpStep("mark_processed") =>
            /\ ProcessedIn(processed_events', lastOp'.key)
            /\ \A id \in StoreEventIds \ {lastOp'.key} :
                    ProcessedIn(processed_events', id) = ProcessedIn(processed_events, id)]_vars
    /\ [][\A id \in StoreEventIds :
            /\ (~ProcessedIn(processed_events, id) /\ ProcessedIn(processed_events', id))
                    => (OpStep("mark_processed") /\ lastOp'.key = id)
            /\ (ProcessedIn(processed_events, id) /\ ~ProcessedIn(processed_events', id)) => OpStep("cleanup_expired")]_vars

\* both events marked, with different dispositions
C15_Witness ==
    /\ lastOp.name = "mark_processed"
    /\ ~lastOp.raised
    /\ \A id \in StoreEventIds : IsProcessed(id)
    /\ \E x \in processed_events : \E y \in processed_events :
            x.disposition /= y.disposition

\* C16: has_threshold_fired is false at first and becomes true only by
\* record_threshold_fired of that key; it is true after
\* record_threshold_fired and false after clear_threshold_fired, which
\* returns true exactly when a marker existed.
C16_ThresholdCycle ==
    /\ [](storeOps = 0 => \A k \in ThresholdKeys : ~HasThresholdFired(k[1], k[2], k[3]))
    /\ [][\A k \in ThresholdKeys :
            (~FiredIn(action_history, k) /\ FiredIn(action_history', k))
                => (OpStep("record_threshold_fired") /\ lastOp'.key = k)]_vars
    /\ [][OpStep("record_threshold_fired") =>
            FiredIn(action_history', lastOp'.key)]_vars
    /\ [][OpStep("clear_threshold_fired") =>
            /\ ~FiredIn(action_history', lastOp'.key)
            /\ lastOp'.ret =
                 Some(FiredIn(action_history, lastOp'.key))]_vars

\* record, clear, clear: the second clear found no marker and returned false
C16_Witness ==
    /\ storeOps = 3
    /\ lastOp.name = "clear_threshold_fired"
    /\ lastOp.ret = Some(FALSE)
    /\ action_history = {}

\* C17: a mutating operation that fails inside its transaction leaves every
\* table as it was (get_checkpoint returns what it returned before) and the
\* exception reaches the caller.
C17_AllOrNothing ==
    [][(storeOps' = storeOps + 1 /\ lastOp'.raised) =>
        /\ UNCHANGED storeVars
        /\ GetCheckpoint("main")' = GetCheckpoint("main")
        /\ lastOp'.ret = None]_vars

\* a save_checkpoint of another timestamp failed: the stored row is the old one
C17_Witness ==
    /\ lastOp.name = "save_checkpoint"
    /\ lastOp.raised
    /\ IsSome(checkpoints["main"])
    /\ lastOp.args[1].last_event_timestamp
         /= Get(checkpoints["main"]).last_event_timestamp

\* the instant a stored text denotes
InstantOf(text) == [day |-> text[1], sec |-> text[3]]

\* C18: a row marked at T0 expires at T0 + retention_days, and a
\* cleanup_expired at any time earlier than that deletes nothing for the
\* event: is_processed stays true.
C18_NoEarlyCleanup ==
    /\ [][OpStep("mark_processed") =>
            \E row \in processed_events' :
                /\ row.event_id = lastOp'.key
                /\ InstantOf(row.ttl_expires_at)
                     = [day |-> now.day + RetentionDays, sec |-> now.sec]]_vars
    /\ [][OpStep("cleanup_expired") =>
            \A row \in processed_events :
                Before(now, InstantOf(row.ttl_expires_at))
                    => (row \in processed_events' /\ ProcessedIn(processed_events', row.event_id))]_vars

\* a cleanup later on the day of the mark removed nothing
C18_Witness ==
    /\ lastOp.name = "cleanup_expired"
    /\ lastOp.ret = Some(0)
    /\ now = [day |-> 0, sec |-> 1]
    /\ \E row \in processed_events : Before(now, InstantOf(row.ttl_expires_at))

\* C19: cleanup_expired deletes every row whose ttl_expires_at is before
\* now, by whatever amount, returns the number of rows deleted, and
\* is_processed is false for each of them afterwards.
C19_CleanupDeletesExpired ==
    [][OpStep("cleanup_expired") =>
        /\ \A row \in processed_events :
                Before(InstantOf(row.ttl_expires_at), now)
                    => (row \notin processed_events' /\ ~ProcessedIn(processed_events', row.event_id))
        /\ lastOp'.ret = Some(Cardinality(processed_events \ processed_events'))]_vars

\* the timestamp of the notification with this id
TimestampOf(id) ==
    (CHOOSE n \in {NotificationList[i] : i \in 1..Len(NotificationList)} : n.id = id).timestamp

\* C20: when a poll cycle ends successfully the checkpoint it saves holds a
\* last_event_timestamp not older than any event the cycle handled: for
\* every event whose action the cycle executed, the stored value exists and
\* is at least the timestamp of that event.
C20_CheckpointAdvanced ==
    [][(ppc = "fetch" /\ queue = <<>> /\ ppc' = "idle") =>
        \A x \in executions :
            x.cycle = cycles =>
                /\ IsSome(StoredEventTs(checkpoints'))
                /\ Get(StoredEventTs(checkpoints')) >= TimestampOf(x.event)]_vars

\* the audit rows and the executions of an event
AuditRowsOf(log, id) == SelectSeq(log, LAMBDA row : row.event_id = id)

ExecutionsOf(execs, id) == {x \in execs : x.event = id}

\* C21: an event that is fully handled (marked processed, audit entry
\* written) gets no further action and no further audit entry, also when
\* the cycle that handled it failed while fetching and the next cycle reads
\* the same window again.
C21_ReprocessingSafe ==
    [][\A n \in Notifications :
          (ProcessedIn(processed_events, n.id) /\ AuditRowsOf(audit_log, n.id) /= <<>>)
              => /\ AuditRowsOf(audit_log', n.id) = AuditRowsOf(audit_log, n.id)
                 /\ ExecutionsOf(executions', n.id) = ExecutionsOf(executions, n.id)]_vars

\* the first cycle failed after it handled an event (no checkpoint was
\* saved); the second cycle read the event again and passed over it
C21_Witness ==
    /\ cycles = 2
    /\ crashes = 0
    /\ ~IsSome(checkpoints["main"])
    /\ ppc = "fetch"
    /\ Len(audit_log) = 1
    /\ \E n \in upstream :
          /\ IsProcessed(n.id)
          /\ AuditRowsOf(audit_log, n.id) /= <<>>
          /\ \A i \in 1..Len(queue) : queue[i] /= n
    /\ queue /= <<>>

C23_SleepInterrupted == sinceSignal <= SleepIncrement

PagesRequested == {pageRequests[i].url.page : i \in 1..Len(pageRequests)}

IsPrefix(s, t) == Len(s) <= Len(t) /\ s = SubSeq(t, 1, Len(s))

\* C25: get_paginated yields the items in upstream order; a request for a
\* page is issued only when every item of the pages before it has been
\* handed to the consumer; without a cap the iteration ends after the first
\* page without a next link, all items yielded.
C25_LazyOrdered ==
    /\ [](IsPrefix(yielded, FirstPages(book, Len(book))))
    /\ [][Len(pageRequests') > Len(pageRequests) =>
            /\ buffer = <<>>
            /\ yielded = FirstPages(book, page_count)
            /\ pageRequests'[Len(pageRequests')].url.page = page_count + 1
            /\ page_count < Len(book)]_vars
    /\ []((gpc = "done" /\ max_pages = None) =>
            /\ page_count = Len(book)
            /\ yielded = FirstPages(book, Len(book))
            /\ PagesRequested = 1..Len(book))

\* three pages were read to the end, one request retried on the way
C25_Witness ==
    /\ gpc = "done"
    /\ max_pages = None
    /\ Len(book) = 3
    /\ Len(yielded) >= 3
    /\ pageFailures = 1

\* C26: with max_pages = m, m >= 0, at most m pages are requested and only
\* items of the first m pages are yielded.
C26_MaxPagesCap ==
    IsSome(max_pages) =>
        /\ Cardinality(PagesRequested) <= Get(max_pages)
        /\ IsPrefix(yielded, FirstPages(book, Min(Get(max_pages), Len(book))))

\* C27: only the requests of the first page carry query parameters, the
\* caller's with per_page; every request that follows a next link carries
\* none, a retried one included.
C27_CursorRequestsBare ==
    \A i \in 1..Len(pageRequests) :
        IF pageRequests[i].url.page = 1
        THEN pageRequests[i].params = Some(params)
        ELSE pageRequests[i].params = None

\* the request of page 2, a relative next link, was retried
C27_Witness ==
    /\ linkKind = "path"
    /\ \E i \in 1..(Len(pageRequests) - 1) :
          /\ pageRequests[i].url.page = 2
          /\ pageRequests[i + 1].url.page = 2
    /\ \E p \in params : p[1] = "all"

\* the rows at or after `since`, by the instants the stored timestamps denote
AtOrAfter(rows, since) ==
    {i \in 1..Len(rows) :
        ~IsSome(since) \/ ~Before(InstantOf(rows[i].timestamp), Get(since))}

\* C28: query_audit_log(since, limit) returns the newest `limit` entries
\* among those at or after `since` (among all when since is absent), newest
\* first: min(limit, number of such entries) distinct entries, in
\* non-increasing order of timestamp, none older than an entry left out.
C28_QueryNewestFirst ==
    [][OpStep("query_audit_log") =>
        LET since == lastOp'.args[1]
            limit == lastOp'.args[2]
            res == Get(lastOp'.ret)
            m == AtOrAfter(audit_log, since)
            ts(i) == InstantOf(audit_log[i].timestamp)
        IN /\ Len(res) = Min(limit, Cardinality(m))
           /\ \A i \in 1..Len(res) : res[i] \in m
           /\ \A i \in 1..Len(res) : \A j \in 1..Len(res) : i /= j => res[i] /= res[j]
           /\ \A i \in 1..(Len(res) - 1) : ~Before(ts(res[i]), ts(res[i + 1]))
           /\ \A k \in m \ {res[i] : i \in 1..Len(res)} : \A i \in 1..Len(res) :
                 ~Before(ts(res[i]), ts(k))]_vars

\* C29: write_audit_entry appends one row, whose id is greater than every
\* existing id, and returns that id; no operation of the store changes or
\* removes a row of the audit log.
C29_AuditAppendOnly ==
    /\ [][OpStep("write_audit_entry") =>
            /\ Len(audit_log') = Len(audit_log) + 1
            /\ lastOp'.ret = Some(Len(audit_log'))
            /\ Get(lastOp'.ret) > Len(audit_log)]_vars
    /\ [][/\ Len(audit_log') >= Len(audit_log)
          /\ SubSeq(audit_log', 1, Len(audit_log)) = audit_log
          /\ (audit_log' /= audit_log => OpStep("write_audit_entry"))]_vars

\* a second entry was written after operations on the other tables
C29_Witness ==
    /\ storeOps = 3
    /\ lastOp.name = "write_audit_entry"
    /\ lastOp.ret = Some(2)
    /\ processed_events /= {}

(***************************************************************************)
(* Properties of migrate_database.                                         *)
(***************************************************************************)
\* the versions a call has to apply
Pending == (versionBefore + 1)..target_version

\* C30: migrate_database applies the migrations current_version+1 ..
\* target_version in increasing order and ends with get_schema_version =
\* target_version; it raises when a version of that range has no migration;
\* on a database at or above the target it applies nothing, changes no row
\* and returns.
C30_MigrateDatabase ==
    /\ [](\A i \in 1..Len(applied) : applied[i] = versionBefore + i)
    /\ []((mpc = "idle" /\ migrateCalls > 0 /\ versionBefore < target_version
                /\ target_version <= current_schema_version) =>
            IF Pending \subseteq migrations
            THEN /\ migrateResult = [kind |-> "returned", value |-> target_version]
                 /\ Len(applied) = target_version - versionBefore
                 /\ GetSchemaVersion(schema_version) = target_version
            ELSE migrateResult.kind = "raised")
    /\ [][(migrateCalls' = migrateCalls + 1
                /\ GetSchemaVersion(schema_version) >= target_version') =>
            /\ applied' = <<>>
            /\ mpc' = "idle"
            /\ UNCHANGED <<schema_version, storeVars>>
            /\ target_version' >= 0 =>
                  migrateResult' = [kind |-> "returned",
                                    value |-> GetSchemaVersion(schema_version)]]_vars

\* the database was migrated to version 3 and used; a second call with
\* target 2 applied nothing
C30_Witness ==
    /\ mpc = "idle"
    /\ migrateCalls = 2
    /\ migrateResult.kind = "returned"
    /\ versionBefore = 3
    /\ target_version = 2
    /\ applied = <<>>
    /\ processed_events /= {}

(***************************************************************************)
(* Properties of the entity cache.                                         *)
(***************************************************************************)
\* this step is a get_issue or get_pull_request call
LookupStep == lookups' = lookups + 1

\* C31: the cache a poll cycle uses is empty when the cycle starts, and the
\* first lookup of a key through the cache in a cycle fetches from the API.
C31_CacheEmptyAtCycleStart ==
    /\ [][cacheCycles' /= cacheCycles =>
            \A key \in EntityKeys : ~IsSome(entity_cache'[key])]_vars
    /\ [][(LookupStep /\ lastLookup'.use_cache /\ lastLookup'.key \notin cycleLookups) =>
            lastLookup'.fetched]_vars

\* the second cycle looks up a key the first cycle had cached, and fetches it
C31_Witness ==
    /\ cacheCycles = 2
    /\ lookups = 2
    /\ lastLookup.use_cache
    /\ lastLookup.fetched
    /\ cycleLookups = {lastLookup.key}
    /\ \A key \in EntityKeys : IsSome(entity_cache[key]) <=> key = lastLookup.key

\* C38: a lookup through the cache returns the payload the same call with
\* use_cache=False returns, whatever get_issue and get_pull_request calls
\* on the key came before it.
C38_CacheIsMemoization ==
    [][(LookupStep /\ lastLookup'.use_cache) =>
          lastLookup'.ret = IF lastLookup'.op = "get_issue"
                            THEN IssuePayload(lastLookup'.key)
                            ELSE PullPayload(lastLookup'.key)]_vars

\* ---------------------------------------------------------------------------
\* Claims about the notification channels
\* ---------------------------------------------------------------------------

\* C32: at most one comment per issue per hour: two comments posted on the same issue key
\* are at least 3600 seconds apart, whatever the events, the rules and the poll cycles
\* they came from.
C32_OneCommentPerHour ==
    \A i \in DOMAIN commentLog : \A j \in DOMAIN commentLog :
        (i < j /\ commentLog[i].key = commentLog[j].key)
            => commentLog[j].at - commentLog[i].at >= 3600

\* C33: the comment action is gated by opt-in: when opt_in is anything but True, execute
\* makes no POST, returns success = False with attempts = 0, and leaves the per-issue
\* rate limiter as it found it.
C33_OptInGate ==
    (lastCall.channel = "github_comment" /\ lastCall.opt_in /= "True")
        => /\ npc = "idle"
           /\ postLog = <<>>
           /\ IsSome(sendResult)
           /\ Get(sendResult).kind = "result"
           /\ Get(sendResult).success = FALSE
           /\ Get(sendResult).attempts = 0
           /\ last_comment = lastCall.limiter

\* an opt_in that is truthy but not True was turned away, on an issue the limiter allowed
C33_Witness ==
    /\ lastCall.channel = "github_comment"
    /\ lastCall.opt_in = "1"
    /\ IsSome(lastCall.key)
    /\ CanComment(lastCall.limiter, monotonic, Get(lastCall.key))
    /\ IsSome(sendResult)
    /\ Get(sendResult).attempts = 0

\* the statuses the channels are to give up on at once
GivesUpOn(ch) == IF ch = "slack" THEN {400, 403, 404} ELSE {401, 403, 404, 422}

\* the POST that met o is followed by no other
Final(ch, o) ==
    o.kind = "status" /\ (o.code = (IF ch = "slack" THEN 200 ELSE 201) \/ o.code \in GivesUpOn(ch))

C39_CanCommentUnlessRecent ==
    \A k \in EntityKeys :
        ~CanComment(last_comment, monotonic, k)
            => /\ IsSome(last_comment[k])
               /\ monotonic - Get(last_comment[k]) < 3600

\* C35: a logical call that runs out of attempts raises right after its last failed
\* attempt: the client sleeps a rate-limit or backoff wait only when another attempt
\* follows, so one logical call sleeps at most MAX_RETRIES - 1 = 3 retry waits.
C35_NoWaitBeforeRaise ==
    /\ waitCount <= MAX_RETRIES - 1
    /\ cpc = "raised" => lastWait = NoWait

(***************************************************************************)
(* Properties of what the poll cycle records for an event.                *)
(***************************************************************************)
\* the disposition an event's own outcome calls for: rules are the rules that matched it,
\* taken the actions taken for it
OwnDisposition(rules, taken, dry) ==
    IF rules = <<>> THEN "no_match"
    ELSE IF dry THEN "dry_run"
    ELSE IF \E i \in DOMAIN taken : taken[i].result = "failure" THEN "error"
    ELSE "action_executed"

\* C36: the disposition recorded for an event, in processed_events and in its audit entry,
\* depends on that event's own outcome only: error only if one of its own actions failed,
\* action_executed if it matched and none failed, no_match if no rule matched, dry_run in
\* dry-run mode, whatever happened to the events handled before it in the cycle.
C36_DispositionIsOwn ==
    /\ \A i \in DOMAIN audit_log :
          audit_log[i].disposition
              = OwnDisposition(audit_log[i].rules_evaluated, audit_log[i].actions_taken, dry_run)
    /\ ppc = "audit"
          => \A row \in processed_events :
                row.event_id = event.id
                    => row.disposition = OwnDisposition(result, actions_taken, dry_run)

\* the audit entries of an event that carry the disposition disp
AuditEntriesFor(log, id, disp) ==
    SelectSeq(log, LAMBDA row : row.event_id = id /\ row.disposition = disp)

\* C37: between poll cycles, also after a cycle that was cut between two store writes,
\* every event in processed_events has exactly one audit entry with its event_id and
\* its disposition.
C37_ProcessedHasOneAuditEntry ==
    ppc = "idle"
        => \A row \in processed_events :
              Len(AuditEntriesFor(audit_log, row.event_id, row.disposition)) = 1

\* record_action on any event_id makes has_threshold_fired true of no triple
RecordActionSetsNoMarker ==
    [][OpStep("record_action") =>
        \A k \in KeyTriples : FiredIn(action_history', k) => FiredIn(action_history, k)]_vars

\* clear_threshold_fired deletes no row that record_action wrote
ClearKeepsActionRows ==
    [][(lastOp.name = "record_action" /\ OpStep("clear_threshold_fired")) =>
        ExecutedIn(action_history', lastOp.key[1], lastOp.key[2])]_vars

\* the marker recorded for one triple is the marker of no other
MarkersAreDistinct ==
    [][OpStep("record_threshold_fired") =>
        \A k \in KeyTriples :
            (k /= lastOp'.key /\ FiredIn(action_history', k)) => FiredIn(action_history, k)]_vars

\* C40: threshold markers and the records of real actions share action_history without
\* touching each other, whatever the id strings: record_action on any event_id makes
\* has_threshold_fired true of no triple, clear_threshold_fired deletes no row that
\* record_action wrote, and a marker recorded for one triple is the marker of no other.
C40_MarkersDoNotInterfere ==
    /\ RecordActionSetsNoMarker
    /\ ClearKeepsActionRows
    /\ MarkersAreDistinct

====
